---- MODULE Spec2Model ----
(***************************************************************************)
(* A model of the colour-mixing solver (class ColorMixingSolver).          *)
(*                                                                         *)
(* A hex string is a sequence of one-character strings, so that parsing    *)
(* (hexToRgb) and formatting (rgbToHex) are modelled by what they do.      *)
(* Real-valued quantities are kept exact:                                  *)
(*   - a distance d is represented by its square (an integer), and         *)
(*     "d <= tolerance" by LeqTolerance;                                   *)
(*   - an accuracy a in [0,100] is represented by the integer lossSq with  *)
(*     a = 100 - 100 * sqrt(lossSq / MaxDistanceSq);                       *)
(*   - hues and lightness are compared as integer cross-multiplications.   *)
(* Math.random() is a nondeterministic choice.                             *)
(***************************************************************************)
EXTENDS Integers, Sequences, FiniteSets, TLC

(***************************************************************************)
(* Hex strings                                                             *)
(***************************************************************************)
LowerDigits ==
  <<"0","1","2","3","4","5","6","7","8","9","a","b","c","d","e","f">>

UpperDigits ==
  <<"0","1","2","3","4","5","6","7","8","9","A","B","C","D","E","F">>

HexChars == {LowerDigits[i] : i \in 1..16} \cup {UpperDigits[i] : i \in 1..16}

\* parseInt(c, 16) of one hex character
HexVal(c) ==
  (CHOOSE i \in 1..16 : LowerDigits[i] = c \/ UpperDigits[i] = c) - 1

\* the value hexToRgb returns when the regular expression does not match
Null == [null |-> TRUE]

\* availableColors[i] for an index outside the array; String(undefined) is
\* the text the regular expression of hexToRgb is run on
Undefined == <<"u","n","d","e","f","i","n","e","d">>

RED     == <<"#","f","f","0","0","0","0">>
GREEN   == <<"#","0","0","f","f","0","0">>
BLUE    == <<"#","0","0","0","0","f","f">>
WHITE   == <<"#","f","f","f","f","f","f">>
BLACK   == <<"#","0","0","0","0","0","0">>
YELLOW  == <<"#","f","f","f","f","0","0">>
MAGENTA == <<"#","f","f","0","0","f","f">>
CYAN    == <<"#","0","0","f","f","f","f">>

DEFAULT_AVAILABLE_COLORS ==
  <<RED, GREEN, BLUE, WHITE, BLACK, YELLOW, MAGENTA, CYAN>>

DEFAULT_MAX_STEPS == 10

DEFAULT_MAX_ITERATIONS == 1000

DEFAULT_TOLERANCE == 25

DEFAULT_MAX_SLOTS == 6

\* "const v = value; Body(v)": the value is computed once, before the body
With(value, Body(_)) == CHOOSE out \in {Body(v) : v \in {value}} : TRUE

\* hexToRgb with a pattern that also takes the 3-digit shorthand
hexToRgbShorthand(hex) ==
  With(IF Len(hex) \in {4, 7} /\ hex[1] = "#" THEN Tail(hex) ELSE hex,
       LAMBDA body :
    With(IF Len(body) = 3
         THEN <<body[1], body[1], body[2], body[2], body[3], body[3]>>
         ELSE body,
         LAMBDA wide :
      IF Len(wide) = 6 /\ \A i \in 1..6 : wide[i] \in HexChars
      THEN [r |-> 16 * HexVal(wide[1]) + HexVal(wide[2]),
            g |-> 16 * HexVal(wide[3]) + HexVal(wide[4]),
            b |-> 16 * HexVal(wide[5]) + HexVal(wide[6])]
      ELSE Null))

\* /^#?([a-f\d]{2})([a-f\d]{2})([a-f\d]{2})$/i
hexToRgb(hex) ==
  With(IF Len(hex) = 7 /\ hex[1] = "#" THEN Tail(hex) ELSE hex,
       LAMBDA body :
    IF Len(body) = 6 /\ \A i \in 1..6 : body[i] \in HexChars
    THEN [r |-> 16 * HexVal(body[1]) + HexVal(body[2]),
          g |-> 16 * HexVal(body[3]) + HexVal(body[4]),
          b |-> 16 * HexVal(body[5]) + HexVal(body[6])]
    ELSE Null)

\* x.toString(16), left-padded to two digits when it has one
toHex2(x) ==
  IF x < 16 THEN <<"0", LowerDigits[x + 1]>>
  ELSE <<LowerDigits[(x \div 16) + 1], LowerDigits[(x % 16) + 1]>>

rgbToHex(r, g, b) == <<"#">> \o toHex2(r) \o toHex2(g) \o toHex2(b)

\* Math.floor in the place of Math.round
RoundDivDown(total, n) == total \div n

\* Math.round(total / n): nearest integer, halves up (total >= 0, n > 0)
RoundDiv(total, n) == (2 * total + n) \div (2 * n)

RECURSIVE SumChannel(_, _)
\* the forEach of blendColors for one channel: entries that do not parse
\* add nothing
SumChannel(colors, ch) ==
  IF colors = <<>> THEN 0
  ELSE With(hexToRgb(Head(colors)),
            LAMBDA rgb : IF rgb = Null THEN 0 ELSE rgb[ch])
       + SumChannel(Tail(colors), ch)

blendColors(colors) ==
  With(colors, LAMBDA list :
    IF Len(list) = 0 THEN BLACK
    ELSE IF Len(list) = 1 THEN list[1]
    ELSE rgbToHex(RoundDiv(SumChannel(list, "r"), Len(list)),
                  RoundDiv(SumChannel(list, "g"), Len(list)),
                  RoundDiv(SumChannel(list, "b"), Len(list))))

\* calculateDistance returns sqrt of this integer
calculateDistanceSq(rgb1, rgb2) ==
  (rgb1.r - rgb2.r) * (rgb1.r - rgb2.r)
  + (rgb1.g - rgb2.g) * (rgb1.g - rgb2.g)
  + (rgb1.b - rgb2.b) * (rgb1.b - rgb2.b)

\* maxDistance * maxDistance of calculateAccuracy
MaxDistanceSq == 3 * 255 * 255

\* the fitness Infinity of an individual whose blend does not parse: larger
\* than every squared distance
Infinity == MaxDistanceSq + 1

\* LeqTolerance without the comparison
LeqToleranceOff(distSq, tolerance) == distSq # Infinity

\* sqrt(distSq) <= tolerance, for an integer tolerance
LeqTolerance(distSq, tolerance) ==
  distSq # Infinity /\ tolerance >= 0 /\ distSq <= tolerance * tolerance

\* stands for the TypeError thrown when a field of null is read
TypeError == -1

\* calculateAccuracy with the distance between black and white (255) as the
\* largest distance
calculateAccuracyGrey(target, actual) ==
  With(actual, LAMBDA rgb :
    IF rgb = Null THEN TypeError
    ELSE With(calculateDistanceSq(target, rgb), LAMBDA d :
           IF d > 255 * 255 THEN 255 * 255 ELSE d))

\* Math.max(0, 100 - (distance / maxDistance) * 100), as the lossSq of the
\* header comment
calculateAccuracy(target, actual) ==
  With(actual, LAMBDA rgb :
    IF rgb = Null THEN TypeError
    ELSE With(calculateDistanceSq(target, rgb), LAMBDA d :
           IF d > MaxDistanceSq THEN MaxDistanceSq ELSE d))

\* the literal accuracy: 0 of the failure results
AccuracyZero == MaxDistanceSq

(***************************************************************************)
(* Results                                                                 *)
(***************************************************************************)
\* one MixingStep; description is the template text (note) with the colour
\* and the 1-based slot number it is filled with
MixingStep(color, index, note) ==
  [action |-> "add", color |-> color, slotIndex |-> index,
   description |-> [color |-> color, slot |-> index + 1, note |-> note]]

\* StepsOf numbering the slots from 1
StepsOfFromOne(colors, note) ==
  [i \in 1..Len(colors) |-> MixingStep(colors[i], i, note)]

\* colors.map((color, index) => ({action: 'add', color, slotIndex: index, ...}))
\* (sequence position i is array index i - 1)
StepsOf(colors, note) ==
  [i \in 1..Len(colors) |-> MixingStep(colors[i], i - 1, note)]

FailureResult(explanation) ==
  [success |-> FALSE, steps |-> <<>>, finalColor |-> BLACK,
   accuracy |-> AccuracyZero, explanation |-> explanation]

(***************************************************************************)
(* Exhaustive strategy (solveBruteForce)                                   *)
(***************************************************************************)
\* mixedRgb && calculateDistance(targetRgb, mixedRgb) <= tolerance
WithinTolerance(targetRgb, hex, tolerance) ==
  With(hexToRgb(hex), LAMBDA rgb :
    rgb # Null /\ LeqTolerance(calculateDistanceSq(targetRgb, rgb), tolerance))

RECURSIVE SingleLoop(_, _, _, _)
\* SingleLoop keeping the last match instead of returning at the first
SingleLoopLast(i, targetRgb, colors, tolerance) ==
  LET matches == {n \in i..Len(colors) :
                    WithinTolerance(targetRgb, colors[n], tolerance)}
  IN  IF matches = {} THEN 0
      ELSE CHOOSE n \in matches : \A m \in matches : m <= n

\* for (const color of availableColors): the first index that matches, or 0
SingleLoop(i, targetRgb, colors, tolerance) ==
  IF i > Len(colors) THEN 0
  ELSE IF WithinTolerance(targetRgb, colors[i], tolerance) THEN i
  ELSE SingleLoop(i + 1, targetRgb, colors, tolerance)

RECURSIVE PairLoop(_, _, _, _, _)
\* PairLoop keeping the last match instead of returning at the first
PairLoopLast(i, j, targetRgb, colors, tolerance) ==
  LET matches == {p \in (i..Len(colors)) \X (j..Len(colors)) :
                    /\ p[1] <= p[2]
                    /\ WithinTolerance(targetRgb,
                                       blendColors(<<colors[p[1]], colors[p[2]]>>),
                                       tolerance)}
  IN  IF matches = {} THEN <<>>
      ELSE CHOOSE p \in matches : \A q \in matches :
             q[1] < p[1] \/ (q[1] = p[1] /\ q[2] <= p[2])

\* for i, for j = i: the first pair of indices that matches, or <<>>
PairLoop(i, j, targetRgb, colors, tolerance) ==
  IF i > Len(colors) THEN <<>>
  ELSE IF j > Len(colors) THEN PairLoop(i + 1, i + 1, targetRgb, colors, tolerance)
  ELSE IF WithinTolerance(targetRgb, blendColors(<<colors[i], colors[j]>>), tolerance)
       THEN <<i, j>>
  ELSE PairLoop(i, j + 1, targetRgb, colors, tolerance)

RECURSIVE TripleLoop(_, _, _, _, _, _, _)
\* for i, for j = i, for k = j with "if (k >= maxSlots) break" on the
\* 0-based k (k - 1 here): the first triple of indices that matches, or <<>>
TripleLoop(i, j, k, targetRgb, colors, tolerance, maxSlots) ==
  IF i > Len(colors) THEN <<>>
  ELSE IF j > Len(colors)
       THEN TripleLoop(i + 1, i + 1, i + 1, targetRgb, colors, tolerance, maxSlots)
  ELSE IF k > Len(colors) \/ k - 1 >= maxSlots
       THEN TripleLoop(i, j + 1, j + 1, targetRgb, colors, tolerance, maxSlots)
  ELSE IF WithinTolerance(targetRgb,
                          blendColors(<<colors[i], colors[j], colors[k]>>),
                          tolerance)
       THEN <<i, j, k>>
  ELSE TripleLoop(i, j, k + 1, targetRgb, colors, tolerance, maxSlots)

\* the result built for the combination of the palette indices idx
BruteForceSolution(idx, targetRgb, colors, explanation) ==
  With([n \in 1..Len(idx) |-> colors[idx[n]]], LAMBDA combination :
    [success |-> TRUE,
     steps |-> StepsOf(combination, ""),
     finalColor |-> blendColors(combination),
     accuracy |-> calculateAccuracy(targetRgb, hexToRgb(blendColors(combination))),
     explanation |-> explanation])

solveBruteForce(targetRgb, options) ==
  LET colors == options.availableColors
      tol    == options.tolerance
  IN  With(SingleLoop(1, targetRgb, colors, tol), LAMBDA single :
        IF single # 0
        THEN [success |-> TRUE,
              steps |-> <<MixingStep(colors[single], 0, "(perfect match!)")>>,
              finalColor |-> colors[single],
              accuracy |-> calculateAccuracy(targetRgb, hexToRgb(colors[single])),
              explanation |-> <<"Single color solution">>]
        ELSE With(PairLoop(1, 1, targetRgb, colors, tol), LAMBDA pair :
          IF pair # <<>>
          THEN BruteForceSolution(pair, targetRgb, colors,
                                  <<"Two-color solution">>)
          ELSE With(TripleLoop(1, 1, 1, targetRgb, colors, tol, options.maxSlots),
                    LAMBDA triple :
            IF triple # <<>>
            THEN BruteForceSolution(triple, targetRgb, colors,
                                    <<"Three-color solution">>)
            ELSE FailureResult(<<"No brute force solution found">>))))

(***************************************************************************)
(* Lightness-correction strategy (solveWithLightnessControl)               *)
(***************************************************************************)
Max3(a, b, c) == IF a >= b /\ a >= c THEN a ELSE IF b >= c THEN b ELSE c

Min3(a, b, c) == IF a <= b /\ a <= c THEN a ELSE IF b <= c THEN b ELSE c

Abs(x) == IF x < 0 THEN -x ELSE x

\* hue in degrees is hNum / hDen and lightness in percent is lNum / lDen
\* (the saturation is computed by the source and never read)
rgbToHsl(rgb) ==
  LET max == Max3(rgb.r, rgb.g, rgb.b)
      min == Min3(rgb.r, rgb.g, rgb.b)
      d   == max - min
      h6  == IF max = rgb.r
             THEN (rgb.g - rgb.b) + (IF rgb.g < rgb.b THEN 6 * d ELSE 0)
             ELSE IF max = rgb.g THEN (rgb.b - rgb.r) + 2 * d
             ELSE (rgb.r - rgb.g) + 4 * d
  IN  [hNum |-> IF max # min THEN 60 * h6 ELSE 0,
       hDen |-> IF max # min THEN d ELSE 1,
       lNum |-> 100 * (max + min),
       lDen |-> 510]

\* the table hueColors of findClosestHue
hueColors ==
  << [color |-> RED, hue |-> 0], [color |-> YELLOW, hue |-> 60],
     [color |-> GREEN, hue |-> 120], [color |-> CYAN, hue |-> 180],
     [color |-> BLUE, hue |-> 240], [color |-> MAGENTA, hue |-> 300] >>

\* availableColors.includes(color)
Includes(availableColors, color) ==
  \E i \in 1..Len(availableColors) : availableColors[i] = color

\* Math.min(|h - hue|, 360 - |h - hue|), times hDen
HueDiff(hsl, hue) ==
  LET a == Abs(hsl.hNum - hue * hsl.hDen)
      b == 360 * hsl.hDen - a
  IN  IF a <= b THEN a ELSE b

RECURSIVE HueLoop(_, _, _, _, _)
\* HueLoop with "hueDiff <= minDistance": the later anchor wins a tie
HueLoopLast(n, closestColor, minDistance, hsl, availableColors) ==
  LET present == {m \in n..Len(hueColors) :
                    Includes(availableColors, hueColors[m].color)}
  IN  IF present = {} THEN [color |-> closestColor, distance |-> minDistance]
      ELSE LET best == CHOOSE m \in present : \A l \in present :
                         \/ HueDiff(hsl, hueColors[m].hue) < HueDiff(hsl, hueColors[l].hue)
                         \/ /\ HueDiff(hsl, hueColors[m].hue) = HueDiff(hsl, hueColors[l].hue)
                            /\ l <= m
           IN  [color |-> hueColors[best].color,
                distance |-> HueDiff(hsl, hueColors[best].hue)]

\* the loop of findClosestHue; minDistance = -1 stands for Infinity
HueLoop(n, closestColor, minDistance, hsl, availableColors) ==
  IF n > Len(hueColors) THEN [color |-> closestColor, distance |-> minDistance]
  ELSE IF Includes(availableColors, hueColors[n].color)
          /\ (minDistance = -1 \/ HueDiff(hsl, hueColors[n].hue) < minDistance)
       THEN HueLoop(n + 1, hueColors[n].color, HueDiff(hsl, hueColors[n].hue),
                    hsl, availableColors)
  ELSE HueLoop(n + 1, closestColor, minDistance, hsl, availableColors)

\* returns Null when no anchor is in the palette
findClosestHue(targetHsl, availableColors) ==
  LET r == HueLoop(1, <<>>, -1, targetHsl, availableColors)
  IN  IF r.color = <<>> THEN Null ELSE r

\* Math.ceil(num / den) for num >= 0, den > 0
CeilDiv(num, den) == (num + den - 1) \div den

Min2(a, b) == IF a <= b THEN a ELSE b

\* baseLightness of calculateLightnessAdjustment
baseLightness == 50

\* targetLightness is lNum / lDen. The quotients are exact here; the source
\* computes them in floating point, which can round Math.ceil one step up
\* when the ratio times 3 is an integer (max + min of 170, 340 or 425); no
\* colour of Targets has such a sum.
calculateLightnessAdjustment(lNum, lDen) ==
  IF lNum > (baseLightness + 15) * lDen
  THEN [needsWhite |-> TRUE, needsBlack |-> FALSE,
        whiteAmount |-> Min2(3, CeilDiv(3 * (lNum - baseLightness * lDen),
                                        (100 - baseLightness) * lDen)),
        blackAmount |-> 0]
  ELSE IF lNum < (baseLightness - 15) * lDen
  THEN [needsWhite |-> FALSE, needsBlack |-> TRUE,
        whiteAmount |-> 0,
        blackAmount |-> Min2(3, CeilDiv(3 * (baseLightness * lDen - lNum),
                                        baseLightness * lDen))]
  ELSE [needsWhite |-> FALSE, needsBlack |-> FALSE,
        whiteAmount |-> 0, blackAmount |-> 0]

\* n copies of color
Repeat(color, n) == [i \in 1..n |-> color]

\* LightnessSolution adding white without looking for it in the palette
LightnessSolutionAnyWhite(baseHue, adj, availableColors) ==
  <<baseHue.color>>
  \o (IF adj.needsWhite THEN Repeat(WHITE, adj.whiteAmount) ELSE <<>>)
  \o (IF adj.needsBlack /\ Includes(availableColors, BLACK)
      THEN Repeat(BLACK, adj.blackAmount) ELSE <<>>)

\* the array solution built by solveWithLightnessControl (baseHue # Null)
LightnessSolution(baseHue, adj, availableColors) ==
  <<baseHue.color>>
  \o (IF adj.needsWhite /\ Includes(availableColors, WHITE)
      THEN Repeat(WHITE, adj.whiteAmount) ELSE <<>>)
  \o (IF adj.needsBlack /\ Includes(availableColors, BLACK)
      THEN Repeat(BLACK, adj.blackAmount) ELSE <<>>)

\* the note of getStepDescription
getStepDescription(color, index) ==
  IF index = 0 THEN "as base color"
  ELSE IF color = WHITE THEN "to lighten the mixture"
  ELSE IF color = BLACK THEN "to darken the mixture"
  ELSE ""

solveWithLightnessControl(targetRgb, options) ==
  LET availableColors == options.availableColors
  IN  With(rgbToHsl(targetRgb), LAMBDA targetHsl :
      With(findClosestHue(targetHsl, availableColors), LAMBDA baseHue :
        IF baseHue = Null THEN FailureResult(<<"Lightness control failed">>)
        ELSE
      With(calculateLightnessAdjustment(targetHsl.lNum, targetHsl.lDen),
           LAMBDA adj :
      With(LightnessSolution(baseHue, adj, availableColors), LAMBDA solution :
      With(blendColors(solution), LAMBDA mixedColor :
        IF WithinTolerance(targetRgb, mixedColor, options.tolerance)
        THEN [success |-> TRUE,
              steps |-> [i \in 1..Len(solution) |->
                           MixingStep(solution[i], i - 1,
                                      getStepDescription(solution[i], i - 1))],
              finalColor |-> mixedColor,
              accuracy |-> calculateAccuracy(targetRgb, hexToRgb(mixedColor)),
              explanation |-> <<"Lightness-controlled solution">>]
        ELSE FailureResult(<<"Lightness control failed">>))))))

(***************************************************************************)
(* Heuristic strategy (solveWithColorTheory)                               *)
(***************************************************************************)
\* the shares are red / total, green / total, blue / total; total = 0 stands
\* for the all-zero record returned when r + g + b = 0
analyzePrimaryContributions(rgb) ==
  [red |-> rgb.r, green |-> rgb.g, blue |-> rgb.b,
   total |-> rgb.r + rgb.g + rgb.b]

\* Math.round((share / totalContribution) * 3); the shares sum to 1, and with
\* the all-zero record the quotient is NaN, for which no loop iteration runs
SlotsFor(part, total) == IF total = 0 THEN 0 ELSE RoundDiv(3 * part, total)

buildColorTheorySolution(contributions, availableColors, targetRgb, tolerance) ==
  LET redSlots   == SlotsFor(contributions.red, contributions.total)
      greenSlots == SlotsFor(contributions.green, contributions.total)
      blueSlots  == SlotsFor(contributions.blue, contributions.total)
      solution ==
        (IF Includes(availableColors, RED) THEN Repeat(RED, redSlots) ELSE <<>>)
        \o (IF Includes(availableColors, GREEN) THEN Repeat(GREEN, greenSlots)
            ELSE <<>>)
        \o (IF Includes(availableColors, BLUE) THEN Repeat(BLUE, blueSlots)
            ELSE <<>>)
  IN  With(solution, LAMBDA colors :
      With(blendColors(colors), LAMBDA mixedColor :
        IF Len(colors) > 0 /\ WithinTolerance(targetRgb, mixedColor, tolerance)
        THEN [success |-> TRUE,
              steps |-> StepsOf(colors, "(color theory)"),
              finalColor |-> mixedColor,
              accuracy |-> calculateAccuracy(targetRgb, hexToRgb(mixedColor)),
              explanation |-> <<"Color theory solution">>]
        ELSE FailureResult(<<"Color theory approach failed">>)))

solveWithComplementaryColors(targetRgb, availableColors, tolerance) ==
  FailureResult(<<"Complementary color approach not implemented">>)

solveWithColorTheory(targetRgb, options) ==
  With(buildColorTheorySolution(analyzePrimaryContributions(targetRgb),
                                options.availableColors, targetRgb,
                                options.tolerance),
       LAMBDA solution :
    IF solution.success THEN solution
    ELSE solveWithComplementaryColors(targetRgb, options.availableColors,
                                      options.tolerance))

(***************************************************************************)
(* Best-attempt fallback (generateBestAttempt)                             *)
(***************************************************************************)
RECURSIVE generate(_, _, _, _)
RECURSIVE generateFrom(_, _, _, _, _)
\* generate reporting a combination only from depth 2 on
generateFromDepthTwo(current, depth, colors, maxLength) ==
  (IF depth > 1 /\ Len(current) > 0 THEN <<current>> ELSE <<>>)
  \o (IF depth >= maxLength THEN <<>>
      ELSE generateFrom(1, current, depth, colors, maxLength))

\* the closure generate of generateAllCombinations: the combinations it hands
\* to the callback, in call order
generate(current, depth, colors, maxLength) ==
  (IF depth > 0 /\ Len(current) > 0 THEN <<current>> ELSE <<>>)
  \o (IF depth >= maxLength THEN <<>>
      ELSE generateFrom(1, current, depth, colors, maxLength))

\* its for loop, from index i on
generateFrom(i, current, depth, colors, maxLength) ==
  IF i > Len(colors) THEN <<>>
  ELSE generate(Append(current, colors[i]), depth + 1, colors, maxLength)
       \o generateFrom(i + 1, current, depth, colors, maxLength)

\* generateAllCombinations stopping one level early
generateAllCombinationsShort(colors, maxLength) ==
  generate(<<>>, 0, colors, maxLength - 1)

generateAllCombinations(colors, maxLength) == generate(<<>>, 0, colors, maxLength)

\* BestStep replacing the best so far also at an equal distance
BestStepLast(combination, best, targetRgb) ==
  With(hexToRgb(blendColors(combination)), LAMBDA mixedRgb :
    IF /\ mixedRgb # Null
       /\ calculateDistanceSq(targetRgb, mixedRgb) <= best.bestDistance
    THEN [bestColors |-> combination,
          bestDistance |-> calculateDistanceSq(targetRgb, mixedRgb)]
    ELSE best)

\* the callback of generateBestAttempt, called on one combination with the
\* best so far
BestStep(combination, best, targetRgb) ==
  With(hexToRgb(blendColors(combination)), LAMBDA mixedRgb :
    IF /\ mixedRgb # Null
       /\ calculateDistanceSq(targetRgb, mixedRgb) < best.bestDistance
    THEN [bestColors |-> combination,
          bestDistance |-> calculateDistanceSq(targetRgb, mixedRgb)]
    ELSE best)

RECURSIVE BestLoop(_, _, _, _, _)
\* the callback applied to combinations[first..last] in call order (the range
\* is cut in two halves, the first before the second)
BestLoop(first, last, combinations, best, targetRgb) ==
  IF first > last THEN best
  ELSE IF first = last THEN BestStep(combinations[first], best, targetRgb)
  ELSE With((first + last) \div 2, LAMBDA middle :
       With(BestLoop(first, middle, combinations, best, targetRgb),
            LAMBDA half :
         BestLoop(middle + 1, last, combinations, half, targetRgb)))

\* a best attempt that reports success when it is within tolerance
BestAttemptSuccessNear(targetRgb, finalColor, tolerance) ==
  WithinTolerance(targetRgb, finalColor, tolerance)

\* the field "success: false" of the result of generateBestAttempt
BestAttemptSuccess(targetRgb, finalColor, tolerance) == FALSE

generateBestAttempt(targetRgb, options) ==
  With(generateAllCombinations(options.availableColors, options.maxSlots),
       LAMBDA combinations :
  With(BestLoop(1, Len(combinations), combinations,
                [bestColors |-> <<>>, bestDistance |-> Infinity], targetRgb),
       LAMBDA best :
  With(blendColors(best.bestColors), LAMBDA finalColor :
    [success |-> BestAttemptSuccess(targetRgb, finalColor, options.tolerance),
     steps |-> StepsOf(best.bestColors, "(best attempt)"),
     finalColor |-> finalColor,
     accuracy |-> calculateAccuracy(targetRgb, hexToRgb(finalColor)),
     explanation |-> <<"Best attempt">>])))

(***************************************************************************)
(* Evolutionary strategy (solveWithGeneticAlgorithm)                       *)
(***************************************************************************)
\* The source's populationSize is 50 and its eliteSize is 10; the model runs
\* the same algorithm on a smaller population.
populationSize == 2

eliteSize == 1

tournamentSize == 3

\* the length below which mutate may append a colour
MutateGrowLimit == 6

\* the values of availableColors[Math.floor(Math.random() * length)]
RandomColors(availableColors) ==
  IF Len(availableColors) = 0 THEN {Undefined}
  ELSE {availableColors[i] : i \in 1..Len(availableColors)}

\* the values of Math.floor(Math.random() * maxSlots) + 1, for a random
\* number in [0, 1): 1..maxSlots, and maxSlots + 1 .. 1 if maxSlots <= 0 (the
\* loop that draws the colours then runs no round for a value below 1)
RandomLengths(maxSlots) ==
  IF maxSlots > 0 THEN 1..maxSlots ELSE (maxSlots + 1)..1

\* the individuals initializePopulation can draw
RandomIndividuals(availableColors, maxSlots) ==
  UNION {[1..n -> RandomColors(availableColors)] : n \in RandomLengths(maxSlots)}

\* the populations initializePopulation can return
initializePopulation(size, availableColors, maxSlots) ==
  [1..size -> RandomIndividuals(availableColors, maxSlots)]

\* fitness of one individual
Fitness(individual, targetRgb) ==
  With(hexToRgb(blendColors(individual)), LAMBDA mixedRgb :
    IF mixedRgb # Null THEN calculateDistanceSq(targetRgb, mixedRgb)
    ELSE Infinity)

RECURSIVE ScoreLoop(_, _, _, _, _, _, _)
\* ScoreLoop scoring the whole population before it looks for a solution
ScoreLoopAll(n, pop, scores, bestSol, bestFit, targetRgb, tolerance) ==
  LET all == [i \in 1..Len(pop) |-> Fitness(pop[i], targetRgb)]
      least == CHOOSE i \in 1..Len(pop) :
                 \A j \in 1..Len(pop) :
                   all[i] < all[j] \/ (all[i] = all[j] /\ i <= j)
      better == all[least] < bestFit
  IN  [found |-> \E i \in 1..Len(pop) : LeqTolerance(all[i], tolerance),
       fitnessScores |-> all,
       bestSolution |-> IF better THEN pop[least] ELSE bestSol,
       bestFitness |-> IF better THEN all[least] ELSE bestFit]

\* the scoring loop over population[n..], with its early return (found)
ScoreLoop(n, pop, scores, bestSol, bestFit, targetRgb, tolerance) ==
  IF n > Len(pop)
  THEN [found |-> FALSE, fitnessScores |-> scores,
        bestSolution |-> bestSol, bestFitness |-> bestFit]
  ELSE With(Fitness(pop[n], targetRgb), LAMBDA fitness :
       With(IF fitness < bestFit THEN pop[n] ELSE bestSol, LAMBDA sol :
       With(IF fitness < bestFit THEN fitness ELSE bestFit, LAMBDA fit :
         IF LeqTolerance(fitness, tolerance)
         THEN [found |-> TRUE, fitnessScores |-> Append(scores, fitness),
               bestSolution |-> sol, bestFitness |-> fit]
         ELSE ScoreLoop(n + 1, pop, Append(scores, fitness), sol, fit,
                        targetRgb, tolerance))))

\* sortedIndices sorting by descending fitness (b.fitness - a.fitness)
sortedIndicesDescending(fitnessScores) ==
  LET n == Len(fitnessScores)
      Before(i, j) == \/ fitnessScores[i] > fitnessScores[j]
                      \/ fitnessScores[i] = fitnessScores[j] /\ i < j
      Rank(i) == Cardinality({j \in 1..n : Before(j, i)})
  IN  [k \in 1..Min2(eliteSize, n) |-> CHOOSE i \in 1..n : Rank(i) = k - 1]

\* the indices of the eliteSize lowest scores, by the stable sort
sortedIndices(fitnessScores) ==
  LET n == Len(fitnessScores)
      Before(i, j) == \/ fitnessScores[i] < fitnessScores[j]
                      \/ fitnessScores[i] = fitnessScores[j] /\ i < j
      Rank(i) == Cardinality({j \in 1..n : Before(j, i)})
  IN  [k \in 1..Min2(eliteSize, n) |-> CHOOSE i \in 1..n : Rank(i) = k - 1]

RECURSIVE TournamentLoop(_, _, _, _, _)
\* the loop of selectParent over the draws randomIndex[i..]
TournamentLoop(i, draws, fitnessScores, bestIndex, bestFit) ==
  IF i > tournamentSize THEN bestIndex
  ELSE IF fitnessScores[draws[i]] < bestFit
       THEN TournamentLoop(i + 1, draws, fitnessScores, draws[i],
                           fitnessScores[draws[i]])
  ELSE TournamentLoop(i + 1, draws, fitnessScores, bestIndex, bestFit)

\* draws: the tournamentSize random indices
selectParent(pop, fitnessScores, draws) ==
  pop[TournamentLoop(1, draws, fitnessScores, 1, Infinity)]

RECURSIVE CrossLoop(_, _, _, _, _)
\* the loop of crossover from index i on; coins[i] is Math.random() < 0.5
CrossLoop(i, parent1, parent2, coins, child) ==
  IF i > Max3(Len(parent1), Len(parent2), 0) THEN child
  ELSE IF coins[i] /\ i <= Len(parent1)
       THEN CrossLoop(i + 1, parent1, parent2, coins, Append(child, parent1[i]))
  ELSE IF i <= Len(parent2)
       THEN CrossLoop(i + 1, parent1, parent2, coins, Append(child, parent2[i]))
  ELSE CrossLoop(i + 1, parent1, parent2, coins, child)

\* parent[0] || ...: undefined and the empty string are falsy
Falsy(x) == x = Undefined \/ x = <<>>

crossover(parent1, parent2, coins) ==
  LET child == CrossLoop(1, parent1, parent2, coins, <<>>)
      first1 == IF Len(parent1) > 0 THEN parent1[1] ELSE Undefined
      first2 == IF Len(parent2) > 0 THEN parent2[1] ELSE Undefined
  IN  IF Len(child) > 0 THEN child
      ELSE <<IF Falsy(first1) THEN first2 ELSE first1>>

\* mutate removing the last colour of an individual of one colour too
mutateToEmpty(individual, hit, pick, resize, shrink, extra) ==
  LET mutated == [i \in 1..Len(individual) |->
                    IF hit[i] THEN pick[i] ELSE individual[i]]
  IN  IF ~resize THEN mutated
      ELSE IF shrink /\ Len(mutated) > 0
           THEN SubSeq(mutated, 1, Len(mutated) - 1)
      ELSE IF Len(mutated) < MutateGrowLimit THEN Append(mutated, extra)
      ELSE mutated

\* hit[i]: Math.random() < mutationRate at position i, pick[i] the colour
\* drawn for it; resize: Math.random() < mutationRate; shrink:
\* Math.random() < 0.5; extra: the colour drawn for an append
mutate(individual, hit, pick, resize, shrink, extra) ==
  LET mutated == [i \in 1..Len(individual) |->
                    IF hit[i] THEN pick[i] ELSE individual[i]]
  IN  IF ~resize THEN mutated
      ELSE IF shrink /\ Len(mutated) > 1
           THEN SubSeq(mutated, 1, Len(mutated) - 1)
      ELSE IF Len(mutated) < MutateGrowLimit THEN Append(mutated, extra)
      ELSE mutated

formatGeneticSolution(colors, targetRgb) ==
  [success |-> TRUE,
   steps |-> StepsOf(colors, ""),
   finalColor |-> blendColors(colors),
   accuracy |-> calculateAccuracy(targetRgb, hexToRgb(blendColors(colors))),
   explanation |-> <<"Genetic algorithm solution">>]

(***************************************************************************)
(* Orchestration (solve)                                                   *)
(***************************************************************************)
\* option ?? default: a field that is not set is absent from the record
OrDefault(options, field, default) ==
  IF field \in DOMAIN options THEN options[field] ELSE default

normalizeOptions(options) ==
  [maxSteps |-> OrDefault(options, "maxSteps", DEFAULT_MAX_STEPS),
   maxIterations |-> OrDefault(options, "maxIterations", DEFAULT_MAX_ITERATIONS),
   tolerance |-> OrDefault(options, "tolerance", DEFAULT_TOLERANCE),
   availableColors |-> OrDefault(options, "availableColors",
                                 DEFAULT_AVAILABLE_COLORS),
   maxSlots |-> OrDefault(options, "maxSlots", DEFAULT_MAX_SLOTS)]

\* solve without the "if (!result.success)" guards
AfterStrategyUnguarded(res, next) == next

\* where solve goes after a strategy returned res: "if (!result.success)"
\* guards every later strategy
AfterStrategy(res, next) == IF res.success THEN "returned" ELSE next

\* the strategies in the order solve calls them
StrategyOrder ==
  <<"bruteForce", "lightness", "genetic", "colorTheory", "bestAttempt">>

(***************************************************************************)
(* Inputs of the model                                                     *)
(***************************************************************************)
DARKRED == <<"#","8","0","0","0","0","0">>

\* within 1 of blend(red, red, blue) = #aa0055
CRIMSON == <<"#","a","b","0","0","5","5">>

\* blend(red, red, red, black)
BRICK == <<"#","b","f","0","0","0","0">>

\* texts that are not 6-hex-digit colours
NAMED == <<"r","e","d">>

SHORTHAND == <<"#","f","f","f">>

\* blend(red, black, black, black)
MAROON == <<"#","4","0","0","0","0","0">>

\* at distance 3 from red
NEARRED == <<"#","f","c","0","0","0","0">>

Targets == {RED, DARKRED, MAROON, WHITE, BLACK, CRIMSON, NAMED, SHORTHAND}

\* red written without "#" and in upper case
UPPERRED == <<"F","F","0","0","0","0">>

Palettes ==
  {<<>>, <<RED>>, <<RED, BLUE>>, <<RED, BLACK>>, <<NEARRED, RED>>,
   <<RED, NAMED>>, <<UPPERRED, BLACK>>}

\* calls in which the evolutionary strategy has no generation to run
CallsWithoutGenerations ==
  {<<t, [availableColors |-> p, tolerance |-> tol, maxSlots |-> m,
         maxIterations |-> 0]>> :
     t \in Targets, p \in Palettes, tol \in {0, 5}, m \in {0, 1, 2}}

\* calls in which it runs one generation on two colours, or two generations
\* on one colour
CallsWithGenerations ==
  {<<t, [availableColors |-> run[1], tolerance |-> 5, maxSlots |-> 1,
         maxIterations |-> run[2]]>> :
     t \in {CRIMSON, WHITE}, run \in {<<<<RED, BLUE>>, 5>>, <<<<RED>>, 15>>}}

\* calls with no colour to mix
CallsWithEmptyPalette ==
  {<<t, [availableColors |-> <<>>, tolerance |-> 5, maxSlots |-> m,
         maxIterations |-> it]>> :
     t \in {BLACK, WHITE}, m \in {1, 2}, it \in {5, 15}}

\* calls that allow four slots
CallsWithFourSlots ==
  {<<t, [availableColors |-> <<RED, BLACK>>, tolerance |-> 5, maxSlots |-> 4,
         maxIterations |-> 0]>> : t \in {BRICK, WHITE}}

\* calls that leave the tolerance to its default
CallsWithDefaultTolerance ==
  {<<t, [availableColors |-> <<RED>>, maxSlots |-> 1, maxIterations |-> 0]>> :
     t \in {RED, NEARRED, WHITE}}

\* the example of a white target on red and blue, tolerance 5, maxSlots left
\* to its default; maxIterations is 0, so that the evolutionary strategy
\* draws its population and runs no generation
WhiteOnRedBlue ==
  <<WHITE, [availableColors |-> <<RED, BLUE>>, tolerance |-> 5,
            maxIterations |-> 0]>>

\* the call of the README's Basic Usage: an orange target on red, green and
\* blue, tolerance 25, maxSlots 6; maxIterations is 0 as above
OrangeOnRgb ==
  <<<<"#","f","f","8","0","0","0">>,
    [availableColors |-> <<RED, GREEN, BLUE>>, tolerance |-> 25,
     maxSlots |-> 6, maxIterations |-> 0]>>

\* palettes for solveBruteForce: more colours than slots, a repeated colour
BrutePalettes ==
  {<<RED, GREEN, BLUE, WHITE>>, <<RED, GREEN, BLUE, WHITE, BLACK>>,
   <<WHITE, BLACK, RED>>, <<RED, RED, BLUE>>, <<BLACK, WHITE>>}

\* targets for solveBruteForce: the blends of one to three of five colours
BruteTargets ==
  {blendColors(seq) :
     seq \in UNION {[1..n -> {RED, GREEN, BLUE, WHITE, BLACK}] : n \in 1..3}}

\* calls for the evolutionary strategy: two generations on a target that is
\* the blend of a triple solveBruteForce skips, one generation with a
\* negative maxSlots
GeneticCalls ==
  {<<CRIMSON, [availableColors |-> <<RED, RED, BLUE>>, tolerance |-> 5,
               maxSlots |-> 2, maxIterations |-> 15]>>,
   <<BLACK, [availableColors |-> <<RED>>, tolerance |-> 5,
             maxSlots |-> -1, maxIterations |-> 5]>>}

BruteCalls ==
  {<<t, [availableColors |-> p, tolerance |-> tol, maxSlots |-> m]>> :
     t \in BruteTargets, p \in BrutePalettes, tol \in {0, 5, 100},
     m \in {2, 3, 4}}

Calls ==
  CallsWithoutGenerations \cup CallsWithGenerations \cup CallsWithEmptyPalette
  \cup CallsWithFourSlots \cup CallsWithDefaultTolerance

\* the calls above, those for the evolutionary strategy and the example of
\* white on red and blue
AnyCalls == Calls \cup GeneticCalls \cup {WhiteOnRedBlue}

(***************************************************************************)
(* State                                                                   *)
(***************************************************************************)
VARIABLES
  pc,            \* position in solve: "idle", a strategy of StrategyOrder,
                 \* "returned" or "threw"
  targetColor,   \* argument of solve
  opts,          \* normalizeOptions(options)
  result,        \* the variable result of solve; the returned value at the end
  ran,           \* the strategies called so far, in call order
  outcomes,      \* the success fields of the results they returned
  gaPc,          \* position in solveWithGeneticAlgorithm
  population, newPopulation, bestSolution, bestFitness, generation,
  fitnessScores, \* locals of solveWithGeneticAlgorithm
  parent1, parent2, child,
  scored,        \* number of individuals scored in the last scoring loop
  args, value,   \* the arguments and the value of a function applied alone
  gameConfig,    \* ColorMixerGame.gameConfig.gameSettings
  state,         \* GameStateManager.state
  timers,        \* the callbacks registered with setTimeout and not yet run,
                 \* in registration order, each with the time left to it
  shown          \* the result showSolution last passed to applySolutionSteps
                 \* in the current round

vars == <<pc, targetColor, opts, result, ran, outcomes, gaPc, population, newPopulation,
          bestSolution, bestFitness, generation, fitnessScores, parent1,
          parent2, child, scored, args, value, gameConfig, state, timers,
          shown>>

gaVars == <<gaPc, population, newPopulation, bestSolution, bestFitness,
            generation, fitnessScores, parent1, parent2, child, scored>>

targetRgb == hexToRgb(targetColor)

NoResult == [success |-> FALSE, steps |-> <<>>, finalColor |-> <<>>,
             accuracy |-> AccuracyZero, explanation |-> <<>>]

\* value before the function is applied
Pending == [pending |-> TRUE]

\* the variables of solve
solveVars == <<pc, targetColor, opts, result, ran, outcomes, scored, gaPc,
               population, newPopulation, bestSolution, bestFitness,
               generation, fitnessScores, parent1, parent2, child>>

\* the variables of the game
gameVars == <<gameConfig, state, timers, shown>>

\* a page on which no game has been constructed
NoGame ==
  /\ gameConfig = Null
  /\ state = Null
  /\ timers = <<>>
  /\ shown = Null

\* a solver on which solve has not been called
SolverIdle ==
  /\ pc = "idle"
  /\ targetColor = <<>>
  /\ opts = normalizeOptions([maxSteps |-> DEFAULT_MAX_STEPS])
  /\ result = NoResult
  /\ ran = <<>>
  /\ outcomes = <<>>
  /\ gaPc = "none"
  /\ population = <<>>
  /\ newPopulation = <<>>
  /\ bestSolution = <<>>
  /\ bestFitness = Infinity
  /\ generation = 0
  /\ fitnessScores = <<>>
  /\ parent1 = <<>>
  /\ parent2 = <<>>
  /\ child = <<>>
  /\ scored = 0

Init ==
  /\ SolverIdle
  /\ NoGame
  /\ args = <<>>
  /\ value = Pending

\* the longest list of colours blendColors is applied to
MaxBlend == 4

\* arguments of blendColors: lists of valid colours, one of them written in
\* upper case without "#"
BlendArgs ==
  UNION {[1..n -> {RED, GREEN, BLUE, WHITE, BLACK, NEARRED, UPPERRED, CRIMSON}] :
           n \in 0..MaxBlend}

BlendInit ==
  /\ SolverIdle
  /\ NoGame
  /\ args \in BlendArgs
  /\ value = Pending

\* value = blendColors(args)
ApplyBlend ==
  /\ value = Pending
  /\ value' = blendColors(args)
  /\ UNCHANGED <<args, solveVars, gameVars>>

BlendSpec == BlendInit /\ [][ApplyBlend]_vars

\* colours with channels at the ends of 0..255, and next to one end
AccuracyColors == [r : {0, 1, 255}, g : {0, 1, 255}, b : {0, 1, 255}]

\* arguments of calculateAccuracy: a target and two actual colours
AccuracyArgs ==
  [target : AccuracyColors, first : AccuracyColors, second : AccuracyColors]

AccuracyInit ==
  /\ SolverIdle
  /\ NoGame
  /\ args \in AccuracyArgs
  /\ value = Pending

\* value = the accuracy of each of the two actual colours
ApplyAccuracy ==
  /\ value = Pending
  /\ value' = <<calculateAccuracy(args.target, args.first),
                calculateAccuracy(args.target, args.second)>>
  /\ UNCHANGED <<args, solveVars, gameVars>>

AccuracySpec == AccuracyInit /\ [][ApplyAccuracy]_vars

\* solve(targetColor, options) up to its first strategy, for a call of calls,
\* as far as the variables of solve go
SolveEntry(calls) ==
  /\ pc = "idle"
  /\ \E call \in calls :
       /\ targetColor' = call[1]
       /\ opts' = normalizeOptions(call[2])
       /\ IF hexToRgb(call[1]) = Null
          THEN /\ result' = FailureResult(<<"Invalid target color format">>)
               /\ pc' = "returned"
          ELSE /\ result' = NoResult
               /\ pc' = "bruteForce"
  /\ ran' = <<>>
  /\ outcomes' = <<>>
  /\ gaPc' = "none"
  /\ scored' = 0
  /\ UNCHANGED <<population, newPopulation, bestSolution, bestFitness,
                 generation, fitnessScores, parent1, parent2, child>>

\* solve called on a solver of its own
SolveCall(calls) ==
  /\ SolveEntry(calls)
  /\ UNCHANGED <<args, value, gameVars>>

Solve == SolveCall(Calls)

\* solve on the call of the README
SolveReadme == SolveCall({OrangeOnRgb})

\* solve on the calls of AnyCalls
SolveAny == SolveCall(AnyCalls)

\* the caller has the result (or the exception) of solve and the solver
\* instance is ready for its next call; what the last call left in its
\* variables stays where it is
Again ==
  /\ pc \in {"returned", "threw"}
  /\ pc' = "idle"
  /\ UNCHANGED <<targetColor, opts, result, ran, outcomes, scored>>
  /\ UNCHANGED gaVars
  /\ UNCHANGED <<args, value, gameVars>>

\* solve on the calls that exercise solveBruteForce
SolveBrute == SolveCall(BruteCalls)

\* where solve goes with the result res of a strategy
Outcome(res, next) ==
  IF res.accuracy = TypeError THEN "threw" ELSE AfterStrategy(res, next)

\* a strategy that is one function of the target and the options
RunStrategy(name, res, next) ==
  /\ result' = res
  /\ ran' = Append(ran, name)
  /\ outcomes' = Append(outcomes, res.success)
  /\ pc' = Outcome(res, next)
  /\ UNCHANGED <<targetColor, opts>>

BruteForce ==
  /\ pc = "bruteForce"
  /\ RunStrategy("bruteForce", solveBruteForce(targetRgb, opts), "lightness")
  /\ UNCHANGED gaVars
  /\ UNCHANGED <<args, value, gameVars>>

Lightness ==
  /\ pc = "lightness"
  /\ RunStrategy("lightness", solveWithLightnessControl(targetRgb, opts), "genetic")
  /\ UNCHANGED gaVars
  /\ UNCHANGED <<args, value, gameVars>>

ColorTheory ==
  /\ pc = "colorTheory"
  /\ RunStrategy("colorTheory", solveWithColorTheory(targetRgb, opts), "bestAttempt")
  /\ UNCHANGED gaVars
  /\ UNCHANGED <<args, value, gameVars>>

BestAttempt ==
  /\ pc = "bestAttempt"
  /\ RunStrategy("bestAttempt", generateBestAttempt(targetRgb, opts), "returned")
  /\ UNCHANGED gaVars
  /\ UNCHANGED <<args, value, gameVars>>

\* the end of a call of solveWithGeneticAlgorithm that keeps the best
\* individual and its fitness for the next call
NoLocalsButBest ==
  /\ population' = <<>>
  /\ newPopulation' = <<>>
  /\ UNCHANGED <<bestSolution, bestFitness>>
  /\ generation' = 0
  /\ fitnessScores' = <<>>
  /\ parent1' = <<>>
  /\ parent2' = <<>>
  /\ child' = <<>>

\* the locals of solveWithGeneticAlgorithm when it is not running
NoLocals ==
  /\ population' = <<>>
  /\ newPopulation' = <<>>
  /\ bestSolution' = <<>>
  /\ bestFitness' = Infinity
  /\ generation' = 0
  /\ fitnessScores' = <<>>
  /\ parent1' = <<>>
  /\ parent2' = <<>>
  /\ child' = <<>>

\* solveWithGeneticAlgorithm up to its generation loop
GAInit ==
  /\ pc = "genetic" /\ gaPc = "none"
  /\ population' \in initializePopulation(populationSize, opts.availableColors,
                                         opts.maxSlots)
  /\ bestSolution' = <<>>
  /\ bestFitness' = Infinity
  /\ generation' = 0
  /\ newPopulation' = <<>>
  /\ fitnessScores' = <<>>
  /\ parent1' = <<>>
  /\ parent2' = <<>>
  /\ child' = <<>>
  /\ scored' = 0
  /\ gaPc' = "loop"
  /\ ran' = Append(ran, "genetic")
  /\ UNCHANGED <<pc, targetColor, opts, result, outcomes>>
  /\ UNCHANGED <<args, value, gameVars>>

\* generation < maxIterations / 10
LoopCondition == 10 * generation < opts.maxIterations

\* EndGeneration putting the last child in the place of the elite
EndGenerationNoElite(np) ==
  IF Len(np) < populationSize
  THEN /\ newPopulation' = np
       /\ gaPc' = "select"
       /\ UNCHANGED <<population, generation>>
  ELSE /\ population' = [k \in 1..Len(np) |->
                           IF k <= eliteSize THEN np[Len(np)] ELSE np[k]]
       /\ newPopulation' = <<>>
       /\ generation' = generation + 1
       /\ gaPc' = "loop"

\* "population = newPopulation" and generation++ once newPopulation is full
EndGeneration(np) ==
  IF Len(np) < populationSize
  THEN /\ newPopulation' = np
       /\ gaPc' = "select"
       /\ UNCHANGED <<population, generation>>
  ELSE /\ population' = np
       /\ newPopulation' = <<>>
       /\ generation' = generation + 1
       /\ gaPc' = "loop"

\* one pass of the generation loop up to the elite: the scoring loop with its
\* early return, then the elite copied into newPopulation
GAScore ==
  /\ pc = "genetic" /\ gaPc = "loop" /\ LoopCondition
  /\ \E sc \in {ScoreLoop(1, population, <<>>, bestSolution, bestFitness,
                            targetRgb, opts.tolerance)} :
       /\ scored' = Len(sc.fitnessScores)
       /\ IF sc.found
          THEN \E res \in {formatGeneticSolution(sc.bestSolution, targetRgb)} :
                 /\ result' = res
                 /\ outcomes' = Append(outcomes, res.success)
                 /\ pc' = Outcome(res, "colorTheory")
                 /\ gaPc' = "done"
                 /\ NoLocals
          ELSE \E elite \in {sortedIndices(sc.fitnessScores)} :
                 /\ fitnessScores' = sc.fitnessScores
                 /\ bestSolution' = sc.bestSolution
                 /\ bestFitness' = sc.bestFitness
                 /\ EndGeneration([k \in 1..Len(elite) |-> population[elite[k]]])
                 /\ UNCHANGED <<pc, result, outcomes, parent1, parent2, child>>
  /\ UNCHANGED <<targetColor, opts, ran>>
  /\ UNCHANGED <<args, value, gameVars>>

\* the two selectParent calls
GASelect ==
  /\ pc = "genetic" /\ gaPc = "select"
  /\ \E p1, p2 \in {selectParent(population, fitnessScores, draws) :
                       draws \in [1..tournamentSize -> 1..Len(population)]} :
       /\ parent1' = p1
       /\ parent2' = p2
  /\ gaPc' = "crossover"
  /\ UNCHANGED <<pc, targetColor, opts, result, ran, outcomes, population,
                 newPopulation,
                 bestSolution, bestFitness, generation, fitnessScores, child,
                 scored>>
  /\ UNCHANGED <<args, value, gameVars>>

GACrossover ==
  /\ pc = "genetic" /\ gaPc = "crossover"
  /\ child' \in {crossover(parent1, parent2, coins) :
                   coins \in [1..Max3(Len(parent1), Len(parent2), 0) -> BOOLEAN]}
  /\ gaPc' = "mutate"
  /\ UNCHANGED <<pc, targetColor, opts, result, ran, outcomes, population,
                 newPopulation,
                 bestSolution, bestFitness, generation, fitnessScores, parent1,
                 parent2, scored>>
  /\ UNCHANGED <<args, value, gameVars>>

\* mutate and newPopulation.push(mutatedChild)
GAMutate ==
  /\ pc = "genetic" /\ gaPc = "mutate"
  /\ \E mutatedChild \in
          {mutate(child, hit, pick, resize, shrink, extra) :
             hit \in [1..Len(child) -> BOOLEAN],
             pick \in [1..Len(child) -> RandomColors(opts.availableColors)],
             resize \in BOOLEAN, shrink \in BOOLEAN,
             extra \in RandomColors(opts.availableColors)} :
       EndGeneration(Append(newPopulation, mutatedChild))
  /\ UNCHANGED <<pc, targetColor, opts, result, ran, outcomes, bestSolution,
                 bestFitness,
                 fitnessScores, parent1, parent2, child, scored>>
  /\ UNCHANGED <<args, value, gameVars>>

\* after the generation loop
GAFinish ==
  /\ pc = "genetic" /\ gaPc = "loop" /\ ~LoopCondition
  /\ LET res == IF LeqTolerance(bestFitness, opts.tolerance)
                THEN formatGeneticSolution(bestSolution, targetRgb)
                ELSE FailureResult(<<"Genetic algorithm failed to find solution">>)
     IN  /\ result' = res
         /\ outcomes' = Append(outcomes, res.success)
         /\ pc' = Outcome(res, "colorTheory")
  /\ gaPc' = "done"
  /\ NoLocals
  /\ UNCHANGED <<targetColor, opts, ran, scored>>
  /\ UNCHANGED <<args, value, gameVars>>

Next ==
  \/ Solve
  \/ BruteForce
  \/ Lightness
  \/ GAInit
  \/ GAScore
  \/ GASelect
  \/ GACrossover
  \/ GAMutate
  \/ GAFinish
  \/ ColorTheory
  \/ BestAttempt

Spec == Init /\ [][Next]_vars

\* solve is synchronous code: it runs until it returns
FairSpec == Spec /\ WF_vars(Next)

\* the steps of solve on the call of the README
NextReadme ==
  \/ SolveReadme
  \/ BruteForce
  \/ Lightness
  \/ GAInit
  \/ GAFinish
  \/ ColorTheory
  \/ BestAttempt

ReadmeSpec == Init /\ [][NextReadme]_vars

\* calls in which the evolutionary strategy uses up its generations, and one
\* in which it returns from its first generation
TerminationCalls ==
  CallsWithGenerations
  \cup {call \in GeneticCalls : call[2].maxSlots < 0}

SolveTermination == SolveCall(TerminationCalls)

NextTermination ==
  \/ SolveTermination
  \/ BruteForce
  \/ Lightness
  \/ GAInit
  \/ GAScore
  \/ GASelect
  \/ GACrossover
  \/ GAMutate
  \/ GAFinish
  \/ ColorTheory
  \/ BestAttempt

\* solve is synchronous code: it runs until it returns
TerminationSpec ==
  Init /\ [][NextTermination]_vars /\ WF_vars(NextTermination)

\* calls of AnyCalls on one solver instance, one after the other
NextAny ==
  \/ SolveAny
  \/ BruteForce
  \/ Lightness
  \/ GAInit
  \/ GAScore
  \/ GASelect
  \/ GACrossover
  \/ GAMutate
  \/ GAFinish
  \/ ColorTheory
  \/ BestAttempt
  \/ Again

AnySpec == Init /\ [][NextAny]_vars

\* solve up to the return of solveBruteForce
NextBrute == SolveBrute \/ BruteForce

BruteForceSpec == Init /\ [][NextBrute]_vars

(***************************************************************************)
(* Properties                                                              *)
(***************************************************************************)
\* a 6-hex-digit colour, with or without the leading '#'
IsHexColor(text) ==
  \/ Len(text) = 6 /\ \A i \in 1..6 : text[i] \in HexChars
  \/ Len(text) = 7 /\ text[1] = "#" /\ \A i \in 2..7 : text[i] \in HexChars

\* the squared RGB distance between two hex colours
HexDistanceSq(hex1, hex2) ==
  calculateDistanceSq(hexToRgb(hex1), hexToRgb(hex2))

\* hex is a colour at Euclidean distance at most opts.tolerance of the target
Near(hex) ==
  /\ IsHexColor(hex)
  /\ opts.tolerance >= 0
  /\ HexDistanceSq(targetColor, hex) <= opts.tolerance * opts.tolerance

PaletteIsValid ==
  \A i \in 1..Len(opts.availableColors) : IsHexColor(opts.availableColors[i])

Returned == pc = "returned"

\* C1: solve calls the strategies in the order exhaustive, lightness,
\* evolutionary, heuristic, fallback; a strategy is called only when every
\* earlier one returned success=false, none is called after a success, and
\* solve returns only after a success or after the fallback.
C1_StrategiesInOrder ==
  /\ Len(ran) <= Len(StrategyOrder)
  /\ ran = SubSeq(StrategyOrder, 1, Len(ran))
  /\ Len(outcomes) <= Len(ran)
  /\ Len(ran) - 1 <= Len(outcomes)
  /\ \A i \in 1..Len(outcomes) :
       IF outcomes[i] THEN i = Len(ran) /\ Returned ELSE TRUE
  /\ (Returned /\ ran # <<>>) =>
       /\ Len(outcomes) = Len(ran)
       /\ outcomes[Len(ran)] \/ Len(ran) = Len(StrategyOrder)

\* all five strategies were called and solve returned
C1_Witness == Returned /\ ran = StrategyOrder

\* C2: whenever solve returns success=true, the distance between the target
\* and the result's finalColor is at most the tolerance.
C2_SuccessWithinTolerance ==
  (Returned /\ result.success) => Near(result.finalColor)

\* the heuristic strategy succeeded with a colour that is not the target
C2_Witness ==
  /\ Returned /\ result.success /\ Len(ran) = 4
  /\ HexDistanceSq(targetColor, result.finalColor) > 0

\* C3: the result solve returns never has more steps than maxSlots (stated
\* here for maxSlots >= 1 and a palette of valid colours).
C3_StepsWithinMaxSlots ==
  (Returned /\ opts.maxSlots >= 1 /\ PaletteIsValid) =>
    Len(result.steps) <= opts.maxSlots

\* C4: the fallback returns success=false, also when the combination it
\* returns is within tolerance of the target.
C4_FallbackNeverSucceeds ==
  (Returned /\ ran = StrategyOrder) => ~result.success

\* the fallback returned a combination within tolerance
C4_Witness ==
  Returned /\ ran = StrategyOrder /\ Near(result.finalColor)

\* C5: with a target that is not a 6-hex-digit colour solve returns at once a
\* failure with no steps and an explanation, and calls no strategy.
C5_InvalidTargetFailsAtOnce ==
  (pc # "idle" /\ ~IsHexColor(targetColor)) =>
    /\ Returned
    /\ ~result.success
    /\ result.steps = <<>>
    /\ result.explanation # <<>>
    /\ ran = <<>>

\* solve returned on the 3-digit shorthand
C5_Witness == Returned /\ targetColor = SHORTHAND

\* the palette indices of the colours within tolerance of the target
NearIndices ==
  {i \in 1..Len(opts.availableColors) : Near(opts.availableColors[i])}

\* C6: with a valid target and a palette of valid colours one of which is
\* within tolerance, solve returns success=true with exactly one step, whose
\* colour is the first palette entry within tolerance and is the finalColor.
C6_SingleColourFirstMatch ==
  (Returned /\ IsHexColor(targetColor) /\ PaletteIsValid /\ NearIndices # {}) =>
    LET first == CHOOSE i \in NearIndices : \A j \in NearIndices : i <= j
    IN  /\ result.success
        /\ Len(result.steps) = 1
        /\ result.steps[1].color = opts.availableColors[first]
        /\ result.finalColor = opts.availableColors[first]

\* two palette colours are within tolerance, the second one closer
C6_Witness ==
  /\ Returned /\ IsHexColor(targetColor) /\ PaletteIsValid
  /\ Cardinality(NearIndices) >= 2
  /\ HexDistanceSq(targetColor, opts.availableColors[2])
       < HexDistanceSq(targetColor, opts.availableColors[1])

\* the non-empty sequences of at most maxSlots palette colours
AllSequences ==
  UNION {[1..n -> {opts.availableColors[i] : i \in 1..Len(opts.availableColors)}] :
           n \in 1..opts.maxSlots}

FallbackRan ==
  /\ Returned /\ ran = StrategyOrder
  /\ Len(opts.availableColors) > 0 /\ PaletteIsValid /\ opts.maxSlots >= 1

\* C7: when the fallback runs on a non-empty palette of valid colours with
\* maxSlots >= 1, no non-empty sequence of at most maxSlots palette colours
\* blends strictly closer to the target than the finalColor it returns.
C7_FallbackIsClosest ==
  FallbackRan =>
    \A seq \in AllSequences :
      HexDistanceSq(targetColor, result.finalColor)
        <= HexDistanceSq(targetColor, blendColors(seq))

\* the closest combination uses all of two or more slots
C7_Witness ==
  /\ FallbackRan
  /\ opts.maxSlots >= 2
  /\ Len(result.steps) = opts.maxSlots
  /\ \A seq \in AllSequences :
       Len(seq) < opts.maxSlots =>
         HexDistanceSq(targetColor, result.finalColor)
           < HexDistanceSq(targetColor, blendColors(seq))

SolvablePre ==
  /\ IsHexColor(targetColor)
  /\ Len(opts.availableColors) > 0 /\ PaletteIsValid /\ opts.maxSlots >= 1

\* C8: for a valid target, a non-empty palette of valid colours and
\* maxSlots >= 1, solve terminates and the result it returns has at least
\* one step.
C8_SolveReturnsSteps ==
  (pc # "idle" /\ SolvablePre) ~> (Returned /\ Len(result.steps) >= 1)

\* solve returned a failure that carries steps
C8_Witness ==
  Returned /\ SolvablePre /\ ~result.success /\ Len(result.steps) >= 1

\* C9: with an empty palette no strategy reports success and solve returns
\* the fallback's result: success=false, no steps, finalColor #000000, and no
\* error is raised.
C9_EmptyPaletteDegenerate ==
  /\ (opts.availableColors = <<>>) => pc # "threw"
  /\ (Returned /\ IsHexColor(targetColor) /\ opts.availableColors = <<>>) =>
       /\ ran = StrategyOrder
       /\ \A i \in 1..Len(outcomes) : ~outcomes[i]
       /\ ~result.success
       /\ result.steps = <<>>
       /\ result.finalColor = BLACK

\* the palette has an entry that is not a hex colour
PaletteHasMalformed ==
  \E i \in 1..Len(opts.availableColors) : ~IsHexColor(opts.availableColors[i])

\* C10: when the palette contains a malformed entry, no result solve returns
\* has a step whose colour is that entry, and no error is raised.
C10_NoMalformedStep ==
  PaletteHasMalformed =>
    /\ pc # "threw"
    /\ Returned =>
         \A i \in 1..Len(result.steps) : IsHexColor(result.steps[i].color)


(***************************************************************************)
(* Command line (solver-cli)                                               *)
(***************************************************************************)
HELP == <<"-","-","h","e","l","p">>

DEMO == <<"-","-","d","e","m","o">>

ALL_LEVELS == <<"-","-","a","l","l","-","l","e","v","e","l","s">>

ORANGE == <<"#","f","f","8","0","0","0">>

RECURSIVE TrimStart(_)
\* parseInt skips the white space before the number
TrimStart(text) ==
  IF text # <<>> /\ Head(text) = " " THEN TrimStart(Tail(text)) ELSE text

RECURSIVE ParsePrefix(_, _, _, _)
\* the digits of the radix at the start of text: <<whether there is one,
\* their value>>; what follows them is ignored
ParsePrefix(text, radix, number, seen) ==
  IF text # <<>> /\ Head(text) \in HexChars /\ HexVal(Head(text)) < radix
  THEN ParsePrefix(Tail(text), radix, radix * number + HexVal(Head(text)), TRUE)
  ELSE <<seen, number>>

\* parseInt(text) with no radix: white space, a sign, "0x" and hex digits or
\* decimal digits; isNaN if there is no digit
parseInt(text) ==
  LET trimmed == TrimStart(text)
      signed == trimmed # <<>> /\ Head(trimmed) \in {"+", "-"}
      unsigned == IF signed THEN Tail(trimmed) ELSE trimmed
      hex == /\ Len(unsigned) >= 2
             /\ unsigned[1] = "0" /\ unsigned[2] \in {"x", "X"}
      prefix == IF hex
                THEN ParsePrefix(SubSeq(unsigned, 3, Len(unsigned)), 16, 0, FALSE)
                ELSE ParsePrefix(unsigned, 10, 0, FALSE)
  IN  [isNaN |-> ~prefix[1],
       number |-> IF signed /\ Head(trimmed) = "-" THEN 0 - prefix[2]
                  ELSE prefix[2]]

\* targetColor.match(/^#[0-9a-fA-F]{6}$/)
MatchesHex(text) ==
  Len(text) = 7 /\ text[1] = "#" /\ \A i \in 2..7 : text[i] \in HexChars

\* the (target, tolerance) of the calls of solve in runDemo
demoColors ==
  <<<<ORANGE, 25>>, <<<<"#","8","0","0","0","8","0">>, 25>>,
    <<<<"#","0","0","8","0","0","0">>, 25>>, <<YELLOW, 25>>,
    <<<<"#","8","0","8","0","8","0">>, 25>>, <<<<"#","f","f","6","b","4","7">>, 25>>>>

\* the (target, tolerance) of the calls of solve in solveAllGameLevels
gameLevels ==
  <<<<ORANGE, 25>>, <<GREEN, 20>>, <<<<"#","8","0","0","0","f","f">>, 25>>,
    <<<<"#","f","f","6","b","4","7">>, 30>>, <<<<"#","0","0","8","0","c","7">>, 25>>,
    <<<<"#","f","f","4","5","0","0">>, 20>>, <<<<"#","2","2","8","b","2","2">>, 30>>,
    <<<<"#","e","6","e","6","f","a">>, 25>>, <<<<"#","f","f","d","7","0","0">>, 20>>,
    <<<<"#","0","0","8","b","8","b">>, 15>>>>

\* what a run of the command line does: whether it prints the usage, its
\* exit status, the (target, tolerance) of its calls of solve
Ran(usage, exit, calls) == [usage |-> usage, exit |-> exit, calls |-> calls]

\* main(): argv is process.argv.slice(2)
main(argv) ==
  IF Len(argv) = 0 \/ Includes(argv, HELP) THEN Ran(TRUE, 0, <<>>)
  ELSE IF Includes(argv, DEMO) THEN Ran(FALSE, 0, demoColors)
  ELSE IF Includes(argv, ALL_LEVELS) THEN Ran(FALSE, 0, gameLevels)
  ELSE With(IF Len(argv) >= 2 /\ argv[2] # <<>> THEN parseInt(argv[2])
            ELSE [isNaN |-> FALSE, number |-> 25],
            LAMBDA tolerance :
         IF ~MatchesHex(argv[1]) THEN Ran(TRUE, 1, <<>>)
         ELSE IF tolerance.isNaN \/ tolerance.number < 0
                 \/ tolerance.number > 255
              THEN Ran(TRUE, 1, <<>>)
         ELSE Ran(FALSE, 0, <<<<argv[1], tolerance.number>>>>))

\* first arguments: targets with and without "#", a colour name, the
\* shorthand, the flags
CliFirst ==
  {ORANGE, <<"#","F","F","8","0","0","0">>, UPPERRED, NAMED, SHORTHAND, HELP, DEMO,
   ALL_LEVELS}

\* second arguments: numbers in and out of 0..255, texts that are no integer
CliSecond ==
  {<<"2","5">>, <<"0">>, <<"2","5","5">>, <<"2","5","6">>, <<"-","1">>, <<"a","b","c">>,
   <<"1","2",".","5">>, <<"2","5","a","b","c">>, <<"0","x","1","0">>, <<" ","7">>, <<>>,
   HELP, DEMO, ALL_LEVELS}

CliArgs ==
  {<<>>} \cup {<<a>> : a \in CliFirst}
  \cup {<<a, b>> : a \in CliFirst, b \in CliSecond}

CliInit ==
  /\ SolverIdle
  /\ NoGame
  /\ args \in CliArgs
  /\ value = Pending

\* value = what main() does on the arguments args
ApplyMain ==
  /\ value = Pending
  /\ value' = main(args)
  /\ UNCHANGED <<args, solveVars, gameVars>>

CliSpec == CliInit /\ [][ApplyMain]_vars

\* the colours of the steps of the result, in order
StepColors == [i \in 1..Len(result.steps) |-> result.steps[i].color]

\* solve has returned from the call of the white example
WhiteExampleReturned ==
  /\ Returned
  /\ targetColor = WhiteOnRedBlue[1]
  /\ opts = normalizeOptions(WhiteOnRedBlue[2])

\* C11 as stated: on the white example solve returns success=false, a
\* combination of two or three colours, and the accuracy of its finalColor
\* against white.
C11_WhiteExampleTwoOrThree ==
  WhiteExampleReturned =>
    /\ ~result.success
    /\ Len(result.steps) \in {2, 3}
    /\ result.accuracy = HexDistanceSq(WHITE, result.finalColor)

\* C11 amended: on the white example solve returns success=false, the steps
\* are the six colours red, red, red, blue, blue, blue (the first combination
\* of at most maxSlots colours at the least distance), finalColor is their
\* blend #800080 and the accuracy is that of finalColor against white; no
\* combination of at most six palette colours is within tolerance.
C11_WhiteExampleBestAttempt ==
  WhiteExampleReturned =>
    /\ ~result.success
    /\ ran = StrategyOrder
    /\ StepColors = <<RED, RED, RED, BLUE, BLUE, BLUE>>
    /\ result.finalColor = <<"#","8","0","0","0","8","0">>
    /\ result.accuracy = HexDistanceSq(WHITE, result.finalColor)
    /\ \A seq \in AllSequences : ~Near(blendColors(seq))

\* solve returned from the white example through the fallback
C11_Witness == WhiteExampleReturned /\ Len(result.steps) = 6

\* C12: the call of the README (target #ff8000, tolerance 25, palette red,
\* green, blue, maxSlots 6) returns success with the two steps "add #ff0000
\* to slot 1" and "add #00ff00 to slot 2" and the final colour #808000.
C12_ReadmeOrangeExample ==
  (/\ Returned
   /\ targetColor = OrangeOnRgb[1]
   /\ opts = normalizeOptions(OrangeOnRgb[2])) =>
    /\ result.success
    /\ StepColors = <<RED, GREEN>>
    /\ \A i \in 1..Len(result.steps) :
         /\ result.steps[i].action = "add"
         /\ result.steps[i].description.slot = i
    /\ result.finalColor = <<"#","8","0","8","0","0","0">>

\* solveBruteForce has just returned result
BruteForceReturned == ran = <<"bruteForce">>

\* C13: with a palette of valid colours and maxSlots >= 3, whenever some
\* combination of one to three palette colours blends within tolerance of the
\* target, solveBruteForce returns success=true.
C13_BruteForceTestsAllUpToThree ==
  (/\ BruteForceReturned
   /\ PaletteIsValid /\ opts.maxSlots >= 3
   /\ \E seq \in UNION {[1..n -> {opts.availableColors[i] :
                                     i \in 1..Len(opts.availableColors)}] :
                          n \in 1..3} : Near(blendColors(seq)))
    => result.success

\* solveWithGeneticAlgorithm has just returned result
GeneticReturned == gaPc = "done" /\ ran[Len(ran)] = "genetic"

\* every individual the evolutionary strategy holds has at least one colour:
\* the population, the next population, the child of crossover
IndividualsNonEmpty ==
  /\ \A i \in 1..Len(population) : Len(population[i]) >= 1
  /\ \A i \in 1..Len(newPopulation) : Len(newPopulation[i]) >= 1
  /\ gaPc = "mutate" => Len(child) >= 1

\* C14 as stated: with a non-empty palette every individual of every
\* generation has at least one colour and a result the evolutionary strategy
\* returns has at least one step.
C14_IndividualsAndResultNonEmpty ==
  Len(opts.availableColors) > 0 =>
    /\ IndividualsNonEmpty
    /\ GeneticReturned => Len(result.steps) >= 1

\* C14 amended: with a non-empty palette and maxSlots >= 0 every individual
\* of every generation has at least one colour and a successful result the
\* evolutionary strategy returns has at least one step.
C14_IndividualsAndSuccessNonEmpty ==
  (Len(opts.availableColors) > 0 /\ opts.maxSlots >= 0) =>
    /\ IndividualsNonEmpty
    /\ (GeneticReturned /\ result.success) => Len(result.steps) >= 1

\* the evolutionary strategy returned a success of three colours, one more
\* than maxSlots: an individual that crossover and mutate produced
C14_Witness ==
  /\ Len(opts.availableColors) > 0 /\ opts.maxSlots = 2
  /\ GeneticReturned /\ result.success
  /\ Len(result.steps) = 3

\* C15: for every result solve returns on a valid target with a non-empty
\* palette of valid colours, every step has action "add" and a palette
\* colour, the step at position i (from 0) has slotIndex i, finalColor equals
\* the blend of the steps' colours and accuracy is the accuracy of finalColor
\* against the target.
C15_ResultShape ==
  (/\ Returned /\ IsHexColor(targetColor)
   /\ Len(opts.availableColors) > 0 /\ PaletteIsValid) =>
    /\ \A i \in 1..Len(result.steps) :
         /\ result.steps[i].action = "add"
         /\ \E j \in 1..Len(opts.availableColors) :
              result.steps[i].color = opts.availableColors[j]
         /\ result.steps[i].slotIndex = i - 1
    /\ result.finalColor = blendColors(StepColors)
    /\ result.accuracy = calculateAccuracy(targetRgb, hexToRgb(result.finalColor))

\* solve returned the success of the evolutionary strategy, three steps on a
\* palette of valid colours
C15_Witness ==
  /\ Returned /\ IsHexColor(targetColor) /\ PaletteIsValid
  /\ ran[Len(ran)] = "genetic"
  /\ Len(result.steps) = 3

\* C16: solve keeps no state between calls. Every step of solve is a
\* function of the variables and of the random draws, so two calls with the
\* same target, options and draws return the same result if each starts
\* from the same values: whatever calls were made before, when solve reaches
\* its first strategy (or returns at once on an invalid target) every
\* variable but its two arguments has the value of a first call.
C16_NoStateBetweenCalls ==
  (pc = "bruteForce" \/ (Returned /\ ran = <<>>)) =>
    /\ ran = <<>> /\ outcomes = <<>> /\ scored = 0
    /\ gaPc = "none"
    /\ population = <<>> /\ newPopulation = <<>>
    /\ bestSolution = <<>> /\ bestFitness = Infinity
    /\ generation = 0 /\ fitnessScores = <<>>
    /\ parent1 = <<>> /\ parent2 = <<>> /\ child = <<>>
    /\ result = IF pc = "bruteForce" THEN NoResult
                ELSE FailureResult(<<"Invalid target color format">>)

\* the solver is ready for another call after the evolutionary strategy
\* succeeded in the last one
C16_Witness ==
  /\ pc = "idle"
  /\ ran = <<"bruteForce", "lightness", "genetic">>
  /\ result.success

\* C17: the blend of n >= 2 valid colours is, per channel, the mean of the
\* channel rounded to the nearest integer, halves up (the integer v with
\* v - 1/2 <= sum/n < v + 1/2), written as "#rrggbb"; the blend of no colour
\* is black, the blend of one colour is that colour; blend([white, black])
\* is (128,128,128) and blend([red, green]) is #808000.
C17_BlendIsRoundedMean ==
  value # Pending =>
    LET n == Len(args)
        Sum(ch) ==
          LET upTo[i \in 0..n] ==
                IF i = 0 THEN 0 ELSE upTo[i - 1] + hexToRgb(args[i])[ch]
          IN  upTo[n]
    IN  /\ n = 0 => value = BLACK
        /\ n = 1 => value = args[1]
        /\ n >= 2 =>
             /\ Len(value) = 7 /\ IsHexColor(value)
             /\ \A ch \in {"r", "g", "b"} :
                  /\ 2 * n * hexToRgb(value)[ch] - n <= 2 * Sum(ch)
                  /\ 2 * Sum(ch) < 2 * n * hexToRgb(value)[ch] + n
        /\ args = <<WHITE, BLACK>> => hexToRgb(value) = [r |-> 128, g |-> 128, b |-> 128]
        /\ args = <<RED, GREEN>> => value = <<"#","8","0","8","0","0","0">>

\* white and black are blended: every channel mean is 127.5
C17_Witness == value # Pending /\ args = <<WHITE, BLACK>>

\* C18: for colours with channels in 0..255 the accuracy is in [0, 100]
\* (a loss between 0 and the largest squared distance), is 100 (loss 0)
\* exactly when actual equals target, and is strictly smaller (the loss
\* strictly larger) for a strictly larger distance to the target.
C18_AccuracyMonotone ==
  value # Pending =>
    LET DistSq(a, b) == (a.r - b.r) * (a.r - b.r) + (a.g - b.g) * (a.g - b.g)
                          + (a.b - b.b) * (a.b - b.b)
    IN  /\ \A i \in 1..2 : 0 <= value[i] /\ value[i] <= 3 * 255 * 255
        /\ value[1] = 0 <=> args.first = args.target
        /\ DistSq(args.target, args.first) < DistSq(args.target, args.second)
             => value[1] < value[2]

\* black against a colour one unit away and against white, the farthest
C18_Witness ==
  /\ value # Pending
  /\ args.target = [r |-> 0, g |-> 0, b |-> 0]
  /\ args.first = [r |-> 0, g |-> 0, b |-> 1]
  /\ args.second = [r |-> 255, g |-> 255, b |-> 255]
  /\ value = <<1, 3 * 255 * 255>>

\* C19: the command-line tool, given a target argument that is not a valid
\* hex colour or a tolerance that is not an integer in 0..255, prints the
\* usage and exits with a non-zero status without calling solve; solve is
\* called only after both checks pass.
C19_CliRejectsBadArguments ==
  (/\ value # Pending
   /\ Len(args) >= 1
   /\ \A i \in 1..Len(args) : args[i] \notin {HELP, DEMO, ALL_LEVELS}) =>
    LET badTarget == ~IsHexColor(args[1])
        \* text is the decimal numeral of an integer in 0..255
        InRange(text) ==
          /\ text # <<>>
          /\ \A i \in 1..Len(text) :
               text[i] \in HexChars /\ HexVal(text[i]) < 10
          /\ ParsePrefix(text, 10, 0, FALSE)[2] <= 255
        badTolerance == Len(args) >= 2 /\ ~InRange(args[2])
    IN  /\ (badTarget \/ badTolerance) =>
             value.usage /\ value.exit # 0 /\ value.calls = <<>>
        /\ value.calls # <<>> => ~badTarget /\ ~badTolerance

\* the index tuples of n palette colours, in non-decreasing order and for
\* triples with the last 0-based index below maxSlots, whose blend is within
\* tolerance of the target
MatchingTuples(n) ==
  {t \in [1..n -> 1..Len(opts.availableColors)] :
     /\ \A a \in 1..(n - 1) : t[a] <= t[a + 1]
     /\ n = 3 => t[3] - 1 < opts.maxSlots
     /\ Near(blendColors([a \in 1..n |-> opts.availableColors[t[a]]]))}

\* t comes before u, or is u, in lexicographic order
LexLeq(t, u) ==
  \/ t = u
  \/ \E a \in 1..Len(t) : t[a] < u[a] /\ \A b \in 1..(a - 1) : t[b] = u[b]

\* C20: solveBruteForce returns the first match in the order singles, pairs
\* (i <= j), triples (i <= j <= k, k < maxSlots), each in lexicographic index
\* order: the result is the lexicographically smallest matching tuple of the
\* smallest size that has a match, and a failure when no size has one.
C20_BruteForceFirstMatch ==
  (BruteForceReturned /\ PaletteIsValid) =>
    LET sizes == {n \in 1..3 : MatchingTuples(n) # {}}
    IN  IF sizes = {} THEN ~result.success /\ result.steps = <<>>
        ELSE LET n == CHOOSE m \in sizes : \A l \in sizes : m <= l
                 first == CHOOSE t \in MatchingTuples(n) :
                            \A u \in MatchingTuples(n) : LexLeq(t, u)
             IN  /\ result.success
                 /\ StepColors = [a \in 1..n |-> opts.availableColors[first[a]]]
                 /\ result.finalColor = blendColors(StepColors)

\* solveBruteForce returned a pair although several pairs match and the
\* smallest is not the pair of the first colour with itself
C20_Witness ==
  /\ BruteForceReturned /\ PaletteIsValid
  /\ result.success /\ Len(result.steps) = 2
  /\ Cardinality(MatchingTuples(2)) >= 2
  /\ <<1, 1>> \notin MatchingTuples(2)
  /\ MatchingTuples(3) # {}

\* C21: in the evolutionary strategy with maxSlots >= 1, every individual of
\* every generation (the population, the next population being built, the
\* child of crossover) has between 1 and maxSlots colours.
C21_IndividualsWithinMaxSlots ==
  (pc = "genetic" /\ opts.maxSlots >= 1) =>
    /\ \A i \in 1..Len(population) :
         Len(population[i]) \in 1..opts.maxSlots
    /\ \A i \in 1..Len(newPopulation) :
         Len(newPopulation[i]) \in 1..opts.maxSlots
    /\ gaPc = "mutate" => Len(child) \in 1..opts.maxSlots

(***************************************************************************)
(* crossover applied alone                                                 *)
(***************************************************************************)
\* the longest parent crossover is applied to
MaxParent == 3

\* parents of 1 to MaxParent colours of a palette of three, and the coins
\* Math.random() < 0.5 of the rounds of the loop
CrossoverArgs ==
  LET parents == UNION {[1..n -> {RED, GREEN, BLUE}] : n \in 1..MaxParent}
  IN  UNION {{<<p1, p2, coins>> :
                coins \in [1..Max3(Len(p1), Len(p2), 0) -> BOOLEAN]} :
             p1 \in parents, p2 \in {<<GREEN>>, <<BLUE, RED>>, <<RED, GREEN, BLUE>>}}

CrossoverInit ==
  /\ SolverIdle
  /\ NoGame
  /\ args \in CrossoverArgs
  /\ value = Pending

ApplyCrossover ==
  /\ value = Pending
  /\ value' = [child |-> crossover(args[1], args[2], args[3])]
  /\ UNCHANGED <<args, solveVars, gameVars>>

CrossoverSpec == CrossoverInit /\ [][ApplyCrossover]_vars

\* C22: crossover of two non-empty parents returns a child as long as the
\* longer parent; where both parents have a colour the child has one of the
\* two, where one parent is exhausted it has the colour of the other.
C22_CrossoverFillsEveryIndex ==
  (value # Pending /\ Len(args[1]) > 0 /\ Len(args[2]) > 0) =>
    LET p1 == args[1]
        p2 == args[2]
        c  == value.child
    IN  /\ Len(c) = Max3(Len(p1), Len(p2), 0)
        /\ \A i \in 1..Len(c) :
             /\ (i <= Len(p1) /\ i <= Len(p2)) => c[i] \in {p1[i], p2[i]}
             /\ i > Len(p2) => c[i] = p1[i]
             /\ i > Len(p1) => c[i] = p2[i]

\* the generation loop moves on to the next generation in this step
NextGeneration == pc = "genetic" /\ generation' = generation + 1

\* C23: every generation the evolutionary strategy builds has exactly
\* populationSize individuals (50 in the source) and holds unchanged copies
\* of the eliteSize (10) lowest-fitness individuals of the generation it was
\* built from.
C23_GenerationSizeAndElite ==
  [][/\ (pc' = "genetic" /\ gaPc' # "none") => Len(population') = populationSize
     /\ NextGeneration =>
          \E elite \in [1..eliteSize -> 1..Len(population)] :
            /\ \A k, l \in 1..eliteSize : elite[k] = elite[l] => k = l
            /\ \A k \in 1..eliteSize : population'[k] = population[elite[k]]
            /\ \A j \in 1..Len(population) :
                 (\A k \in 1..eliteSize : elite[k] # j) =>
                   \A k \in 1..eliteSize :
                     Fitness(population[elite[k]], targetRgb)
                       <= Fitness(population[j], targetRgb)]_vars

\* a second generation is in place whose first individual is the fitter of
\* two individuals of different fitness
C23_Witness ==
  /\ pc = "genetic" /\ gaPc = "loop" /\ generation = 1
  /\ Len(opts.availableColors) > 0
  /\ \E i, j \in 1..Len(fitnessScores) : fitnessScores[i] < fitnessScores[j]
  /\ \A j \in 1..Len(fitnessScores) :
       Fitness(population[1], targetRgb) <= fitnessScores[j]

\* the individual is within the tolerance of the call
IndividualNear(individual) ==
  /\ opts.tolerance >= 0
  /\ Fitness(individual, targetRgb) <= opts.tolerance * opts.tolerance

\* ceil(maxIterations / 10), the number of generations the loop allows
GenerationBudget ==
  IF opts.maxIterations <= 0 THEN 0 ELSE (opts.maxIterations + 9) \div 10

\* what the evolutionary strategy does at the head of its generation loop
GenerationStep ==
  (pc = "genetic" /\ gaPc = "loop") =>
    LET hits == {i \in 1..Len(population) : IndividualNear(population[i])}
    IN  IF generation >= GenerationBudget
        THEN /\ gaPc' = "done" /\ scored' = scored
             /\ ~result'.success /\ result'.steps = <<>>
        ELSE IF hits = {}
        THEN /\ gaPc' # "done" /\ pc' = "genetic"
             /\ scored' = Len(population)
        ELSE LET first == CHOOSE i \in hits : \A j \in hits : i <= j
             IN  /\ gaPc' = "done" /\ scored' = first
                 /\ result'.success
                 /\ [i \in 1..Len(result'.steps) |-> result'.steps[i].color]
                      = population[first]
                 /\ newPopulation' = <<>> /\ generation' = 0

\* C24: the evolutionary strategy always terminates, scoring at most
\* ceil(maxIterations/10) generations; it returns success at the first
\* individual it scores whose fitness is within tolerance, returning that
\* individual, without scoring the rest of the population or building a next
\* generation; when the budget is exhausted it returns failure.
C24_GeneticTerminates ==
  /\ [][GenerationStep]_vars
  /\ [](pc = "genetic" => generation <= GenerationBudget)
  /\ (pc = "genetic") ~> (pc # "genetic")

\* the strategy returned a success from the first individual it scored and
\* left the rest of the population unscored
C24_Witness ==
  /\ GeneticReturned /\ result.success
  /\ scored = 1 /\ scored < populationSize

(***************************************************************************)
(* solveWithLightnessControl applied alone                                 *)
(***************************************************************************)
\* targets with every channel at 0, 64, 128, 200 or 255
StrategyTargets ==
  [r : {0, 64, 128, 200, 255}, g : {0, 64, 128, 200, 255},
   b : {0, 64, 128, 200, 255}]

\* palettes with and without hue anchors, white and black; one holds red
\* only in upper case without "#"
LightnessPalettes ==
  {DEFAULT_AVAILABLE_COLORS, <<YELLOW, RED, WHITE>>, <<GREEN, BLUE, BLACK>>,
   <<WHITE, BLACK>>, <<CYAN, MAGENTA>>, <<UPPERRED, WHITE, BLACK>>, <<>>}

LightnessArgs ==
  [targetRgb : StrategyTargets, availableColors : LightnessPalettes,
   tolerance : {DEFAULT_TOLERANCE}]

LightnessInit ==
  /\ SolverIdle
  /\ NoGame
  /\ args \in LightnessArgs
  /\ value = Pending

\* base and solution are the locals baseHue and solution of
\* solveWithLightnessControl, result is what it returns
ApplyLightness ==
  /\ value = Pending
  /\ \E targetHsl \in {rgbToHsl(args.targetRgb)} :
     \E baseHue \in {findClosestHue(targetHsl, args.availableColors)} :
       value' =
         [base |-> baseHue,
          solution |->
            IF baseHue = Null THEN <<>>
            ELSE LightnessSolution(
                   baseHue,
                   calculateLightnessAdjustment(targetHsl.lNum, targetHsl.lDen),
                   args.availableColors),
          result |-> solveWithLightnessControl(
                       args.targetRgb,
                       [availableColors |-> args.availableColors,
                        tolerance |-> args.tolerance])]
  /\ UNCHANGED <<args, solveVars, gameVars>>

LightnessSpec == LightnessInit /\ [][ApplyLightness]_vars

\* the colours of the steps of a result
ColorsOf(steps) == [i \in 1..Len(steps) |-> steps[i].color]

\* C25: the combination the lightness-correction strategy builds is one hue
\* anchor of the palette followed by 1 to 3 whites (only when the target's
\* lightness is above 65 and white is in the palette), or by 1 to 3 blacks
\* (only when it is below 35 and black is in the palette), or by nothing;
\* white and black are never both added.
C25_LightnessCombination ==
  (value # Pending /\ value.base # Null) =>
    LET s == value.solution
        rest == SubSeq(s, 2, Len(s))
        rgb == args.targetRgb
        \* lightness in percent is 100 * (max + min) / 510
        sum == Max3(rgb.r, rgb.g, rgb.b) + Min3(rgb.r, rgb.g, rgb.b)
        All(color) == \A i \in 1..Len(rest) : rest[i] = color
    IN  /\ Len(s) >= 1
        /\ s[1] \in {RED, YELLOW, GREEN, CYAN, BLUE, MAGENTA}
        /\ Includes(args.availableColors, s[1])
        /\ \/ rest = <<>>
           \/ /\ Len(rest) \in 1..3 /\ All(WHITE)
              /\ 100 * sum > 65 * 510 /\ Includes(args.availableColors, WHITE)
           \/ /\ Len(rest) \in 1..3 /\ All(BLACK)
              /\ 100 * sum < 35 * 510 /\ Includes(args.availableColors, BLACK)
        /\ value.result.success => ColorsOf(value.result.steps) = s

\* a light target for which the strategy returns an anchor and three whites
C25_Witness ==
  /\ value # Pending /\ value.base # Null
  /\ value.result.success
  /\ Len(value.solution) = 4 /\ value.solution[4] = WHITE

\* C26: the base of the lightness-correction strategy is the anchor (red 0,
\* yellow 60, green 120, cyan 180, blue 240, magenta 300) of the palette at
\* the smallest circular hue distance of the target's hue, the earlier anchor
\* in that order winning a tie; with no anchor in the palette the strategy
\* fails with no steps.
C26_ClosestAnchor ==
  value # Pending =>
    LET anchors == <<RED, YELLOW, GREEN, CYAN, BLUE, MAGENTA>>
        present == {n \in 1..6 : Includes(args.availableColors, anchors[n])}
        hsl == rgbToHsl(args.targetRgb)
        \* hDen times the circular distance of the hue hNum / hDen to 60 (n - 1)
        Dist(n) ==
          LET distances == {Abs(hsl.hNum - (60 * (n - 1) + 360 * k) * hsl.hDen) :
                            k \in {-1, 0, 1}}
          IN  CHOOSE d \in distances : \A e \in distances : d <= e
    IN  IF present = {}
        THEN /\ value.base = Null
             /\ ~value.result.success /\ value.result.steps = <<>>
        ELSE LET best == CHOOSE n \in present : \A m \in present :
                           Dist(n) < Dist(m) \/ (Dist(n) = Dist(m) /\ n <= m)
             IN  /\ value.base # Null
                 /\ value.base.color = anchors[best]

\* a target of hue 30, half way between red and yellow, on a palette that
\* lists yellow before red: the base is red
C26_Witness ==
  /\ value # Pending
  /\ args.targetRgb = [r |-> 128, g |-> 64, b |-> 0]
  /\ args.availableColors = <<YELLOW, RED, WHITE>>
  /\ value.base # Null /\ value.base.color = RED

(***************************************************************************)
(* solveWithColorTheory applied alone                                      *)
(***************************************************************************)
\* palettes with all three primaries, with two of them and with none
ColorTheoryPalettes ==
  {<<RED, GREEN, BLUE>>, DEFAULT_AVAILABLE_COLORS, <<BLUE, RED>>,
   <<WHITE, BLACK>>, <<>>}

ColorTheoryArgs ==
  [targetRgb : StrategyTargets, availableColors : ColorTheoryPalettes,
   tolerance : {0, DEFAULT_TOLERANCE}]

ColorTheoryInit ==
  /\ SolverIdle
  /\ NoGame
  /\ args \in ColorTheoryArgs
  /\ value = Pending

ApplyColorTheory ==
  /\ value = Pending
  /\ value' = [result |-> solveWithColorTheory(
                            args.targetRgb,
                            [availableColors |-> args.availableColors,
                             tolerance |-> args.tolerance])]
  /\ UNCHANGED <<args, solveVars, gameVars>>

ColorTheorySpec == ColorTheoryInit /\ [][ApplyColorTheory]_vars

\* C27: the heuristic strategy allocates at most 3 slots in total to the
\* red, green and blue primaries, so the combination it blends, the steps of
\* its result, has at most 3 colours.
C27_AtMostThreeSlots ==
  value # Pending => Len(value.result.steps) <= 3

\* the least fitness of the individuals of pop (Infinity for none)
MinFitness(pop) ==
  IF pop = <<>> THEN Infinity
  ELSE LET all == {Fitness(pop[i], targetRgb) : i \in 1..Len(pop)}
       IN  CHOOSE f \in all : \A g \in all : f <= g

\* C30: while the evolutionary strategy runs, the best-known fitness never
\* increases, and the least fitness of the population of generation g + 1
\* is never greater than the least fitness of the population of generation
\* g, the best individuals being carried over.
C30_FitnessNeverIncreases ==
  [][/\ (pc = "genetic" /\ gaPc \notin {"none", "done"} /\ gaPc' # "done")
          => bestFitness' <= bestFitness
     /\ NextGeneration => MinFitness(population') <= MinFitness(population)]_vars

\* a second generation is in place whose best individual is strictly better
\* than the best of the first, and the best-known fitness is that of the
\* first
C30_Witness ==
  /\ pc = "genetic" /\ gaPc = "loop" /\ generation = 1
  /\ Len(opts.availableColors) > 0
  /\ \A j \in 1..Len(fitnessScores) : MinFitness(population) < fitnessScores[j]
  /\ \E j \in 1..Len(fitnessScores) : bestFitness = fitnessScores[j]
  /\ bestFitness < Infinity

(***************************************************************************)
(* The game (ColorMixerGame, GameStateManager)                             *)
(***************************************************************************)
\* the availableColors showSolution passes to solve
SolutionColors == <<RED, GREEN, BLUE, WHITE, BLACK, YELLOW, MAGENTA, CYAN>>

\* gameSettings of data/game-config.json
GameConfigs ==
  {[mixingSlots |-> 3, tolerance |-> DEFAULT_TOLERANCE, maxAttempts |-> 2],
   [mixingSlots |-> 4, tolerance |-> 10, maxAttempts |-> 3]}

\* blend(red, blue)
PURPLE == <<"#","8","0","0","0","8","0">>

\* blend(red, red, blue)
RASPBERRY == <<"#","a","a","0","0","5","5">>

\* colours generateRandomColor returns: one, two and three of SolutionColors
GameTargets == {RED, PURPLE, RASPBERRY}

\* setTimeout delays in ms: before the first step, between steps, and before
\* the round that follows a submission
FirstStepDelay == 500
NextStepDelay == 1000
NewRoundDelay == 2000

\* the most callbacks waiting at one time
MaxTimers == 2

\* color: null of a slot
NoColor == <<"null">>

\* the colors of the slots after initializeMixingSlots(slotCount); a slot is
\* {id, color, isEmpty} with isEmpty = (color === null) and id its index
initializeMixingSlots(slotCount) == [i \in 1..slotCount |-> NoColor]

\* GameStateManager.mixColors
mixColors(color1, color2) ==
  With(<<hexToRgb(color1), hexToRgb(color2)>>, LAMBDA rgb :
    IF rgb[1] = Null \/ rgb[2] = Null THEN color1
    ELSE rgbToHex(RoundDiv(rgb[1].r + rgb[2].r, 2),
                  RoundDiv(rgb[1].g + rgb[2].g, 2),
                  RoundDiv(rgb[1].b + rgb[2].b, 2)))

\* GameStateManager.addColorToSlot on the slots (slotIndex counts from 0)
addColorToSlot(slots, color, slotIndex) ==
  IF slotIndex + 1 \in DOMAIN slots
  THEN IF slots[slotIndex + 1] # NoColor
       THEN [slots EXCEPT ![slotIndex + 1] = mixColors(@, color)]
       ELSE [slots EXCEPT ![slotIndex + 1] = color]
  ELSE slots

\* GameStateManager.clearSlot
clearSlot(slots, slotIndex) ==
  IF slotIndex + 1 \in DOMAIN slots
  THEN [slots EXCEPT ![slotIndex + 1] = NoColor]
  ELSE slots

\* GameStateManager.getActiveColors
getActiveColors(slots) == SelectSeq(slots, LAMBDA color : color # NoColor)

\* ColorUtils.blendMultipleColors with Math.floor for Math.round
blendMultipleColorsFloor(colors) ==
  IF Len(colors) = 0 THEN BLACK
  ELSE IF Len(colors) = 1 THEN colors[1]
  ELSE rgbToHex(RoundDivDown(SumChannel(colors, "r"), Len(colors)),
                RoundDivDown(SumChannel(colors, "g"), Len(colors)),
                RoundDivDown(SumChannel(colors, "b"), Len(colors)))

\* ColorUtils.blendMultipleColors
blendMultipleColors(colors) ==
  IF Len(colors) = 0 THEN BLACK
  ELSE IF Len(colors) = 1 THEN colors[1]
  ELSE rgbToHex(RoundDiv(SumChannel(colors, "r"), Len(colors)),
                RoundDiv(SumChannel(colors, "g"), Len(colors)),
                RoundDiv(SumChannel(colors, "b"), Len(colors)))

\* the state after updateMixedColor
updateMixedColor(st) ==
  With(getActiveColors(st.mixingSlots), LAMBDA activeColors :
    [st EXCEPT !.playerColor =
       IF Len(activeColors) = 0 THEN BLACK
       ELSE IF Len(activeColors) = 1 THEN activeColors[1]
       ELSE blendMultipleColors(activeColors)])

\* the state after ColorMixerGame.addColorToSlot
GameAddColorToSlot(st, color, slotIndex) ==
  updateMixedColor(
    [st EXCEPT !.mixingSlots = addColorToSlot(@, color, slotIndex)])

\* the state after clearMixingSlot
clearMixingSlot(st, slotIndex) ==
  updateMixedColor([st EXCEPT !.mixingSlots = clearSlot(@, slotIndex)])

\* the loop of clearMixingCanvas from index i on
RECURSIVE ClearLoop(_, _)
ClearLoop(st, i) ==
  IF i < Len(st.mixingSlots) THEN ClearLoop(clearMixingSlot(st, i), i + 1)
  ELSE st

clearMixingCanvas(st) == ClearLoop(st, 0)

\* the state after loadNewRound when generateRandomColor returns target
loadNewRound(st, target) ==
  [st EXCEPT !.targetColor = target,
             !.mixingSlots = initializeMixingSlots(gameConfig.mixingSlots),
             !.playerColor = BLACK]

\* createInitialState with its target
createInitialState(target) ==
  [attemptsLeft |-> gameConfig.maxAttempts, playerColor |-> BLACK,
   targetColor |-> target, mixingSlots |-> <<>>]

\* the game after loadGameConfig and initializeGame
GameInit ==
  /\ SolverIdle
  /\ args = <<>>
  /\ value = Pending
  /\ gameConfig \in GameConfigs
  /\ \E first \in GameTargets, target \in GameTargets :
       state = loadNewRound(createInitialState(first), target)
  /\ timers = <<>>
  /\ shown = Null

\* nothing of the page runs while solve does
PageIdle == pc = "idle" /\ state # Null

\* showSolution up to the first strategy of solve
ShowSolution ==
  /\ PageIdle
  /\ Len(timers) < MaxTimers
  /\ state' = clearMixingCanvas(state)
  /\ SolveEntry({<<state.targetColor,
                   [tolerance |-> gameConfig.tolerance,
                    availableColors |-> SolutionColors,
                    maxSlots |-> gameConfig.mixingSlots]>>})
  /\ UNCHANGED <<args, value, gameConfig, timers, shown>>

\* setTimeout(callback, delay)
setTimeout(callback, steps, stepIndex, delay) ==
  Append(timers, [callback |-> callback, steps |-> steps,
                  stepIndex |-> stepIndex, delay |-> delay])

\* showSolution from the return of solve: applySolutionSteps(result.steps)
ApplySolutionSteps ==
  /\ state # Null
  /\ pc = "returned"
  /\ pc' = "idle"
  /\ timers' = setTimeout("applyNextStep", result.steps, 0, FirstStepDelay)
  /\ shown' = result
  /\ UNCHANGED <<targetColor, opts, result, ran, outcomes, scored>>
  /\ UNCHANGED gaVars
  /\ UNCHANGED <<args, value, gameConfig, state>>

\* the position in timers of the callback the event loop runs next: the
\* first registered of those that are due
IsNextDue(k) ==
  /\ k \in DOMAIN timers
  /\ timers[k].delay = 0
  /\ \A j \in 1..(k - 1) : timers[j].delay # 0

\* timers without the entry at k
WithoutTimer(k) ==
  [j \in 1..(Len(timers) - 1) |-> IF j < k THEN timers[j] ELSE timers[j + 1]]

\* the closure applyNextStep of applySolutionSteps, run by its timer
ApplyNextStep ==
  /\ PageIdle
  /\ \E k \in DOMAIN timers :
       /\ IsNextDue(k)
       /\ timers[k].callback = "applyNextStep"
       /\ \E t \in {timers[k]} :
            IF t.stepIndex >= Len(t.steps)
            THEN /\ timers' = WithoutTimer(k)
                 /\ state' = state
            ELSE \E step \in {t.steps[t.stepIndex + 1]} :
                   /\ state' = IF step.action = "add" /\ step.color # <<>>
                               THEN GameAddColorToSlot(state, step.color,
                                                       step.slotIndex)
                               ELSE state
                   /\ timers' =
                        IF t.stepIndex + 1 < Len(t.steps)
                        THEN Append(WithoutTimer(k),
                                    [t EXCEPT !.stepIndex = @ + 1,
                                              !.delay = NextStepDelay])
                        ELSE WithoutTimer(k)
  /\ UNCHANGED <<args, value, solveVars, gameConfig, shown>>

\* time passes while no callback is due, in steps of the shortest delay (all
\* delays are multiples of it)
Tick ==
  /\ PageIdle
  /\ timers # <<>>
  /\ \A k \in DOMAIN timers : timers[k].delay > 0
  /\ timers' = [k \in DOMAIN timers |-> [timers[k] EXCEPT !.delay = @ - FirstStepDelay]]
  /\ UNCHANGED <<args, value, solveVars, gameConfig, state, shown>>

\* skipRound with attempts left
SkipRound ==
  /\ PageIdle
  /\ state.attemptsLeft > 1
  /\ \E target \in GameTargets :
       state' = loadNewRound([state EXCEPT !.attemptsLeft = @ - 1], target)
  /\ shown' = Null
  /\ UNCHANGED <<args, value, solveVars, gameConfig, timers>>

\* submitColor: handleColorSubmission registers the start of a new round
SubmitColor ==
  /\ PageIdle
  /\ Len(timers) < MaxTimers
  /\ timers' = setTimeout("loadNewRound", <<>>, 0, NewRoundDelay)
  /\ UNCHANGED <<args, value, solveVars, gameConfig, state, shown>>

\* the callback of handleColorSubmission, run by its timer
NewRound ==
  /\ PageIdle
  /\ \E k \in DOMAIN timers :
       /\ IsNextDue(k)
       /\ timers[k].callback = "loadNewRound"
       /\ timers' = WithoutTimer(k)
  /\ \E target \in GameTargets : state' = loadNewRound(state, target)
  /\ shown' = Null
  /\ UNCHANGED <<args, value, solveVars, gameConfig>>

NextGame ==
  \/ ShowSolution
  \/ BruteForce
  \/ ApplySolutionSteps
  \/ ApplyNextStep
  \/ Tick
  \/ SkipRound
  \/ SubmitColor
  \/ NewRound

\* the page with its buttons pressed at any time
GameSpec == GameInit /\ [][NextGame]_vars

\* the slots when the steps of res, and nothing else, were applied to the
\* empty slots of a round: res = Null when nothing was shown in the round
SlotsOf(res) ==
  [i \in 1..gameConfig.mixingSlots |->
     IF res # Null /\ i <= Len(res.steps) THEN res.steps[i].color ELSE NoColor]

\* C28: steps of an earlier solution that still wait on their timers when
\* showSolution runs again or a new round is loaded are not applied: once no
\* callback waits, the slots hold the colours of the solution shown last in
\* the round, and nothing when the round has had none
C28_SolutionsSerialized ==
  (PageIdle /\ timers = <<>>) => state.mixingSlots = SlotsOf(shown)

\* showSolution and skipRound called only while no callback waits
NextSerial ==
  \/ (timers = <<>> /\ ShowSolution)
  \/ BruteForce
  \/ ApplySolutionSteps
  \/ ApplyNextStep
  \/ Tick
  \/ (timers = <<>> /\ SkipRound)

\* timers run when they are due and solve runs until it returns; nothing
\* makes the player press a button
SerialSpec ==
  /\ GameInit
  /\ [][NextSerial]_vars
  /\ WF_vars(BruteForce \/ ApplySolutionSteps \/ ApplyNextStep \/ Tick)

\* applyNextStep puts the colour of the step at stepIndex into the slot of
\* that index, after the slots before it and none after it were filled
StepInOrder ==
  \E t \in {timers[1]} :
    /\ t.steps = shown.steps
    /\ \A i \in DOMAIN state.mixingSlots :
         (state.mixingSlots[i] # NoColor) <=> (i <= t.stepIndex)
    /\ state'.mixingSlots =
         [state.mixingSlots EXCEPT ![t.stepIndex + 1] =
            t.steps[t.stepIndex + 1].color]

\* C29: showSolution with no other call in between and a solution of no more
\* steps than there are slots: each step fills the slot of its index, in
\* order; after the last one slot i holds the colour of step i, the other
\* slots are empty and playerColor is the finalColor of the solver's result;
\* and the last step does run
C29_SolutionShown ==
  /\ [][(ApplyNextStep /\ Len(shown.steps) <= gameConfig.mixingSlots)
          => /\ StepInOrder
             /\ timers' = <<>>
                  => /\ state'.mixingSlots = SlotsOf(shown)
                     /\ state'.playerColor = shown.finalColor]_vars
  /\ (PageIdle /\ timers # <<>>) ~> (PageIdle /\ timers = <<>>)

C29_Witness ==
  /\ PageIdle
  /\ timers = <<>>
  /\ shown # Null
  /\ Len(shown.steps) = 3
  /\ gameConfig.mixingSlots = 4
  /\ state.mixingSlots = <<RED, RED, BLUE, NoColor>>
  /\ state.playerColor = RASPBERRY

=============================================================================
